---- MODULE Spec2Model ----
(***************************************************************************)
(* Model of the design-token pipeline of src/code.js: the collection       *)
(* registry, path index, alias resolver, type classifier, value converter  *)
(* and token tree builder of createSimplifiedDTCGPayload.                  *)
(*                                                                         *)
(* Conventions.  A JavaScript string that the code cuts, joins, searches   *)
(* or re-spells is a sequence of one-character strings; enumeration-like   *)
(* strings (resolvedType, scope tags, $type names, message types) stay     *)
(* atomic.  A JavaScript number is an integer count of 1/Scale units, so   *)
(* that rounding to three decimals is a real operation.  A JavaScript      *)
(* value is a record tagged by its field t.                                *)
(***************************************************************************)
EXTENDS Integers, Sequences, FiniteSets, TLC

VARIABLES
  figmaData,                \* argument of createSimplifiedDTCGPayload
  useRemUnits,              \* code.js:1362
  remBaseFontSize,          \* code.js:1363, in 1/Scale units
  variableIdToPathMap,      \* code.js:91
  unresolvedAliaseIdsSuspectedMissingSource,   \* code.js:94
  processedCollectionSignatures,               \* code.js:1805
  usedCollectionNames,      \* code.js:1807
  dtcgPayload,              \* code.js:1798
  pc,                       \* position inside createSimplifiedDTCGPayload
  cur,                      \* loop cursors and locals of the second pass
  uiMessages,               \* figma.ui.postMessage calls, in order
  history,                  \* what the run did: keys assigned, aliases resolved
  callArgs,                 \* arguments of a pure function under test
  callResult,               \* its result
  pcOther,                  \* position of a second pipeline run, started by a UI message
  document,                 \* what the Figma API answers: collections, variables, failures
  allFetchedVariablesPayload,                  \* code.js:71
  importedLibraryVariableIds,                  \* code.js:81
  variableKeyToIdMap,       \* code.js:84
  variableIdToKeyMap,       \* code.js:87
  console,                  \* console.warn and console.error calls of the fetch, in order
  fetching,                 \* position and locals of fetchAndLogAllVariables and its caller
  returned                  \* what each completed run handed to the UI

\* the state of the fetch stage
fetchVars ==
  <<document, allFetchedVariablesPayload, importedLibraryVariableIds, variableKeyToIdMap,
    variableIdToKeyMap, console, fetching, returned>>

vars == <<figmaData, useRemUnits, remBaseFontSize, variableIdToPathMap,
          unresolvedAliaseIdsSuspectedMissingSource,
          processedCollectionSignatures, usedCollectionNames, dtcgPayload,
          pc, cur, uiMessages, history, callArgs, callResult, pcOther, fetchVars>>

-----------------------------------------------------------------------------
(* Characters and strings *)

LowerCaseLetters == <<"a","b","c","d","e","f","g","h","i","j","k","l","m",
                      "n","o","p","q","r","s","t","u","v","w","x","y","z">>

UpperCaseLetters == <<"A","B","C","D","E","F","G","H","I","J","K","L","M",
                      "N","O","P","Q","R","S","T","U","V","W","X","Y","Z">>

Digits == <<"0","1","2","3","4","5","6","7","8","9">>

HexDigits == <<"0","1","2","3","4","5","6","7","8","9","a","b","c","d","e","f">>

Range(s) == { s[i] : i \in DOMAIN s }

IsWhitespace(c) == c \in {" ", "\t", "\n"}

IsDigit(c) == c \in Range(Digits)

DigitValue(c) == (CHOOSE i \in DOMAIN Digits : Digits[i] = c) - 1

\* String.prototype.toLowerCase, one character
toLowerCaseChar(c) ==
  IF c \in Range(UpperCaseLetters)
    THEN LowerCaseLetters[CHOOSE i \in DOMAIN UpperCaseLetters : UpperCaseLetters[i] = c]
    ELSE c

toLowerCase(s) == [i \in DOMAIN s |-> toLowerCaseChar(s[i])]

\* String.prototype.includes
includes(s, needle) ==
  \E i \in 0..(Len(s) - Len(needle)) :
     \A j \in 1..Len(needle) : s[i + j] = needle[j]

startsWith(s, c) == Len(s) > 0 /\ s[1] = c

endsWith(s, c) == Len(s) > 0 /\ s[Len(s)] = c

RECURSIVE DropWhitespace(_)
DropWhitespace(s) ==
  IF s # <<>> /\ IsWhitespace(Head(s)) THEN DropWhitespace(Tail(s)) ELSE s

\* name.replace(/\s+/g, '-')
RECURSIVE ReplaceWhitespaceRuns(_)
ReplaceWhitespaceRuns(s) ==
  IF s = <<>> THEN <<>>
  ELSE IF IsWhitespace(Head(s))
         THEN <<"-">> \o ReplaceWhitespaceRuns(DropWhitespace(Tail(s)))
         ELSE <<Head(s)>> \o ReplaceWhitespaceRuns(Tail(s))

\* the character class [a-zA-Z0-9\-_]
IsKeyChar(c) ==
  \/ c \in Range(LowerCaseLetters)
  \/ c \in Range(UpperCaseLetters)
  \/ c \in Range(Digits)
  \/ c \in {"-", "_"}

\* .replace(/[^a-zA-Z0-9\-_]/g, '')
RemoveInvalidChars(s) == SelectSeq(s, IsKeyChar)

Unnamed == <<"u","n","n","a","m","e","d">>

UnnamedLibrary == <<"u","n","n","a","m","e","d","-","l","i","b","r","a","r","y">>

\* An absent (undefined, null or empty) string is the empty sequence.
sanitizeForDTCG(name) ==
  IF name = <<>> THEN Unnamed
  ELSE toLowerCase(RemoveInvalidChars(ReplaceWhitespaceRuns(name)))

\* String.prototype.split on a one-character separator
RECURSIVE split(_, _)
split(s, sep) ==
  IF \A i \in DOMAIN s : s[i] # sep THEN <<s>>
  ELSE LET k == CHOOSE i \in DOMAIN s :
                  s[i] = sep /\ \A j \in 1..(i - 1) : s[j] # sep
       IN  <<SubSeq(s, 1, k - 1)>> \o split(SubSeq(s, k + 1, Len(s)), sep)

\* Array.prototype.join with a one-character separator
RECURSIVE join(_, _)
join(parts, sep) ==
  IF parts = <<>> THEN <<>>
  ELSE IF Len(parts) = 1 THEN parts[1]
  ELSE parts[1] \o <<sep>> \o join(Tail(parts), sep)

-----------------------------------------------------------------------------
(* Numbers: n stands for n / Scale *)

Thousand == 1000

Scale == 10 * Thousand

Abs(n) == IF n < 0 THEN -n ELSE n

\* Math.round(p / q) for q > 0: the nearest integer, ties towards +infinity
RoundDiv(p, q) == (2 * p + q) \div (2 * q)

RECURSIVE NatToString(_)
NatToString(k) ==
  IF k < 10 THEN <<Digits[k + 1]>>
  ELSE NatToString(k \div 10) \o <<Digits[(k % 10) + 1]>>

RECURSIVE StripTrailingZeros(_)
StripTrailingZeros(ds) ==
  IF ds # <<>> /\ ds[Len(ds)] = "0"
    THEN StripTrailingZeros(SubSeq(ds, 1, Len(ds) - 1))
    ELSE ds

\* the four fraction digits of f / Scale, 0 <= f < Scale
FractionDigits(f) ==
  <<Digits[(f \div 1000) + 1], Digits[((f \div 100) % 10) + 1],
    Digits[((f \div 10) % 10) + 1], Digits[(f % 10) + 1]>>

\* Number.prototype.toString: shortest decimal spelling
NumberToString(n) ==
  LET a == Abs(n)
      f == a % Scale
  IN  (IF n < 0 THEN <<"-">> ELSE <<>>)
      \o NatToString(a \div Scale)
      \o (IF f = 0 THEN <<>> ELSE <<".">> \o StripTrailingZeros(FractionDigits(f)))

RECURSIVE LeadingDigits(_)
LeadingDigits(s) ==
  IF s # <<>> /\ IsDigit(Head(s)) THEN <<Head(s)>> \o LeadingDigits(Tail(s)) ELSE <<>>

RECURSIVE DigitsToNat(_)
DigitsToNat(ds) ==
  IF ds = <<>> THEN 0
  ELSE 10 * DigitsToNat(SubSeq(ds, 1, Len(ds) - 1)) + DigitValue(ds[Len(ds)])

\* the value, in 1/Scale units, of fraction digits ds (digits past the fourth are cut)
FractionToUnits(ds) ==
  LET d(i) == IF i <= Len(ds) THEN DigitValue(ds[i]) ELSE 0
  IN  1000 * d(1) + 100 * d(2) + 10 * d(3) + d(4)

NaN == [t |-> "nan"]

Num(n) == [t |-> "num", n |-> n]

Str(s) == [t |-> "str", s |-> s]

Bool(b) == [t |-> "bool", b |-> b]

Color(r, g, b, a) == [t |-> "color", r |-> r, g |-> g, b |-> b, a |-> a]

Alias(id) == [t |-> "alias", id |-> id]

Null == [t |-> "null"]

\* parseFloat on a string: optional sign, digits, optional fraction
ParseFloatString(str) ==
  LET s0   == DropWhitespace(str)
      neg  == s0 # <<>> /\ Head(s0) = "-"
      s1   == IF s0 # <<>> /\ Head(s0) \in {"-", "+"} THEN Tail(s0) ELSE s0
      ip   == LeadingDigits(s1)
      r1   == SubSeq(s1, Len(ip) + 1, Len(s1))
      fp   == IF r1 # <<>> /\ Head(r1) = "." THEN LeadingDigits(Tail(r1)) ELSE <<>>
      mag  == DigitsToNat(ip) * Scale + FractionToUnits(fp)
  IN  IF ip = <<>> /\ fp = <<>> THEN NaN
      ELSE Num(IF neg THEN -mag ELSE mag)

\* parseFloat(value): StringOf(value) first, then the numeric prefix
parseFloat(value) ==
  CASE value.t = "num" -> value
    [] value.t = "str" -> ParseFloatString(value.s)
    [] OTHER -> NaN

\* String(value) and template-literal interpolation of a value
StringOf(value) ==
  CASE value.t = "num"   -> NumberToString(value.n)
    [] value.t = "str"   -> value.s
    [] value.t = "bool"  -> IF value.b THEN <<"t","r","u","e">> ELSE <<"f","a","l","s","e">>
    [] value.t = "nan"   -> <<"N","a","N">>
    [] value.t = "null"  -> <<"n","u","l","l">>
    [] OTHER -> <<"[","o","b","j","e","c","t"," ","O","b","j","e","c","t","]">>

\* !!value
Truthy(value) ==
  CASE value.t = "num"   -> value.n # 0
    [] value.t = "str"   -> value.s # <<>>
    [] value.t = "bool"  -> value.b
    [] value.t = "nan"   -> FALSE
    [] value.t = "null"  -> FALSE
    [] OTHER -> TRUE

\* Math.round(x * 1000) / 1000 for the rational x = p / q (q # 0), in 1/Scale units
RoundToThousandths(p, q) ==
  (Scale \div Thousand) *
     (IF q > 0 THEN RoundDiv(p * Thousand, q) ELSE RoundDiv((-p) * Thousand, -q))

\* rounding to two decimals instead of three
roundToMaxThreeDecimals_TwoDecimals(num) ==
  IF num.t # "num" THEN num
  ELSE Num(100 * RoundDiv(num.n, 100))

\* code.js:9
roundToMaxThreeDecimals(num) ==
  IF num.t # "num" THEN num
  ELSE parseFloat(Str(NumberToString(RoundToThousandths(num.n, Scale))))

\* code.js:27; remValue = pxValue / baseFontSize is rounded as a rational
convertPxToRem(pxValue, baseFontSize) ==
  IF pxValue.t # "num" \/ baseFontSize = 0
    THEN StringOf(pxValue) \o <<"p","x">>
    ELSE LET roundedRem ==
               parseFloat(Str(NumberToString(RoundToThousandths(pxValue.n, baseFontSize))))
         IN  StringOf(roundedRem) \o <<"r","e","m">>

Max3(a, b, c) == IF a >= b /\ a >= c THEN a ELSE IF b >= c THEN b ELSE c

Min3(a, b, c) == IF a <= b /\ a <= c THEN a ELSE IF b <= c THEN b ELSE c

\* code.js:45; r, g, b in 1/Scale units, the result in whole degrees and percents
rgbToHsl(r, g, b) ==
  LET max == Max3(r, g, b)
      min == Min3(r, g, b)
      d   == max - min
      \* l = (max + min) / 2 ; Math.round(l * 100)
      l100 == RoundDiv(100 * (max + min), 2 * Scale)
      \* s = l > 0.5 ? d / (2 - max - min) : d / (max + min)
      sden == IF max + min > Scale THEN 2 * Scale - max - min ELSE max + min
      \* h = ((x - y) / d + k) / 6 ; Math.round(h * 360) = round(60 * ((x - y) + k d) / d)
      hnum == IF max = r THEN (g - b) + (IF g < b THEN 6 * d ELSE 0)
              ELSE IF max = g THEN (b - r) + 2 * d
              ELSE (r - g) + 4 * d
  IN  IF max = min
        THEN [h |-> 0, s |-> 0, l |-> l100]
        ELSE [h |-> RoundDiv(60 * hnum, d), s |-> RoundDiv(100 * d, sden), l |-> l100]

-----------------------------------------------------------------------------
(* Type classifier *)

\* code.js:97
PIXEL_DIMENSION_SCOPES ==
  {"CORNER_RADIUS", "WIDTH_HEIGHT", "GAP", "STROKE_WEIGHT",
   "FONT_SIZE", "LINE_HEIGHT", "LETTER_SPACING",
   "PARAGRAPH_SPACING", "PARAGRAPH_INDENT",
   "EFFECT_RADIUS", "EFFECT_OFFSET_X", "EFFECT_OFFSET_Y", "EFFECT_SPREAD"}

\* code.js:104
SPECIFIC_PIXEL_DIMENSION_TYPE_MAP ==
  [s \in {"FONT_SIZE", "LINE_HEIGHT", "LETTER_SPACING", "CORNER_RADIUS", "STROKE_WEIGHT"} |->
     CASE s = "FONT_SIZE" -> "fontSize"
       [] s = "LINE_HEIGHT" -> "lineHeight"
       [] s = "LETTER_SPACING" -> "letterSpacing"
       [] s = "CORNER_RADIUS" -> "borderRadius"
       [] s = "STROKE_WEIGHT" -> "borderWidth"]

\* code.js:112
UNITLESS_NUMERIC_SCOPES == {"FONT_WEIGHT", "LAYER_OPACITY"}

\* code.js:117
SPECIFIC_UNITLESS_NUMERIC_TYPE_MAP ==
  [s \in {"FONT_WEIGHT", "LAYER_OPACITY"} |->
     IF s = "FONT_WEIGHT" THEN "fontWeight" ELSE "opacity"]

sFontfamily == <<"f","o","n","t","f","a","m","i","l","y">>

sFontDashFamily == <<"f","o","n","t","-","f","a","m","i","l","y">>

sFontweight == <<"f","o","n","t","w","e","i","g","h","t">>

sFontDashWeight == <<"f","o","n","t","-","w","e","i","g","h","t">>

\* the FLOAT branch without the both-categories case: pixel scopes win
resolveFloatType_PixelWins(variable) ==
  LET matchedPixelDimensionScopes == variable.scopes \cap PIXEL_DIMENSION_SCOPES
      matchedUnitlessNumericScopes == variable.scopes \cap UNITLESS_NUMERIC_SCOPES
      lname == toLowerCase(variable.name)
  IN  IF matchedPixelDimensionScopes # {}
        THEN IF Cardinality(matchedPixelDimensionScopes) = 1
                /\ matchedPixelDimensionScopes \subseteq DOMAIN SPECIFIC_PIXEL_DIMENSION_TYPE_MAP
               THEN SPECIFIC_PIXEL_DIMENSION_TYPE_MAP[CHOOSE s \in matchedPixelDimensionScopes : TRUE]
               ELSE "dimension"
      ELSE IF matchedUnitlessNumericScopes # {}
        THEN IF Cardinality(matchedUnitlessNumericScopes) = 1
               THEN SPECIFIC_UNITLESS_NUMERIC_TYPE_MAP[CHOOSE s \in matchedUnitlessNumericScopes : TRUE]
               ELSE "number"
      ELSE IF includes(lname, sFontweight) \/ includes(lname, sFontDashWeight)
        THEN "fontWeight"
      ELSE "number"

\* code.js:1139..1205, the FLOAT branch; scopes is the set of the variable's scope tags
resolveFloatType(variable) ==
  LET scopes == variable.scopes
      matchedPixelDimensionScopes == scopes \cap PIXEL_DIMENSION_SCOPES
      matchedUnitlessNumericScopes == scopes \cap UNITLESS_NUMERIC_SCOPES
      pixelDimensionScopeMatchCount == Cardinality(matchedPixelDimensionScopes)
      unitlessNumericScopeMatchCount == Cardinality(matchedUnitlessNumericScopes)
      lname == toLowerCase(variable.name)
  IN  IF pixelDimensionScopeMatchCount > 0 /\ unitlessNumericScopeMatchCount = 0
        THEN IF pixelDimensionScopeMatchCount = 1
                /\ (CHOOSE s \in matchedPixelDimensionScopes : TRUE)
                      \in DOMAIN SPECIFIC_PIXEL_DIMENSION_TYPE_MAP
               THEN SPECIFIC_PIXEL_DIMENSION_TYPE_MAP[CHOOSE s \in matchedPixelDimensionScopes : TRUE]
               ELSE "dimension"
      ELSE IF unitlessNumericScopeMatchCount > 0 /\ pixelDimensionScopeMatchCount = 0
        THEN IF unitlessNumericScopeMatchCount = 1
                /\ (CHOOSE s \in matchedUnitlessNumericScopes : TRUE)
                      \in DOMAIN SPECIFIC_UNITLESS_NUMERIC_TYPE_MAP
               THEN SPECIFIC_UNITLESS_NUMERIC_TYPE_MAP[CHOOSE s \in matchedUnitlessNumericScopes : TRUE]
               ELSE "number"
      ELSE IF pixelDimensionScopeMatchCount > 0 /\ unitlessNumericScopeMatchCount > 0
        THEN "number"
      ELSE IF variable.name # <<>>
              /\ (includes(lname, sFontweight) \/ includes(lname, sFontDashWeight))
        THEN "fontWeight"
      ELSE "number"

\* code.js:1115; an absent resolvedType is "" 
resolveDTCGType(variable) ==
  IF variable.resolvedType = "" THEN "number"
  ELSE IF variable.resolvedType = "COLOR" THEN "color"
  ELSE IF variable.resolvedType = "STRING"
    THEN IF variable.name # <<>>
            /\ (includes(toLowerCase(variable.name), sFontfamily)
                \/ includes(toLowerCase(variable.name), sFontDashFamily))
           THEN "fontFamily"
           ELSE "string"
  ELSE IF variable.resolvedType = "BOOLEAN" THEN "string"
  ELSE IF variable.resolvedType = "FLOAT" THEN resolveFloatType(variable)
  ELSE "number"

-----------------------------------------------------------------------------
(* Value converter *)

\* code.js:1268
TYPES_REQUIRING_PX ==
  {"dimension", "fontSize", "lineHeight", "letterSpacing", "borderRadius", "borderWidth"}

\* Math.round(c * 255).toString(16).padStart(2, '0')
HexByte(c) ==
  LET n == RoundDiv(c * 255, Scale)
  IN  IF n < 16 THEN <<"0", HexDigits[n + 1]>>
      ELSE <<HexDigits[(n \div 16) + 1], HexDigits[(n % 16) + 1]>>

\* `hsla(${hsl.h}, ${hsl.s}%, ${hsl.l}%, ${alpha})`
HslaString(hsl, alpha) ==
  <<"h","s","l","a","(">> \o NatToString(hsl.h) \o <<",", " ">>
  \o NatToString(hsl.s) \o <<"%", ",", " ">>
  \o NatToString(hsl.l) \o <<"%", ",", " ">>
  \o StringOf(alpha) \o <<")">>

\* code.js:1233..1253
convertColor(value) ==
  IF value.t = "color"
    THEN IF value.a # Scale
           THEN Str(HslaString(rgbToHsl(value.r, value.g, value.b),
                               roundToMaxThreeDecimals(Num(value.a))))
           ELSE Str(<<"#">> \o HexByte(value.r) \o HexByte(value.g) \o HexByte(value.b))
    ELSE value

\* code.js:1261..1288
convertNumber(value, dtcgType) ==
  LET num == parseFloat(value)
      roundedNum == IF num.t = "nan" THEN Num(0) ELSE roundToMaxThreeDecimals(num)
  IN  IF dtcgType \in TYPES_REQUIRING_PX
        THEN IF useRemUnits
               THEN Str(convertPxToRem(roundedNum, remBaseFontSize))
               ELSE Str(StringOf(roundedNum) \o <<"p","x">>)
        ELSE roundedNum

\* code.js:1217
convertFigmaValueToDTCG(value, figmaType, dtcgType) ==
  IF value.t = "null" THEN Null
  ELSE IF value.t = "alias" THEN Str(<<"{">> \o value.id \o <<"}">>)
  ELSE CASE figmaType = "COLOR"   -> convertColor(value)
         [] figmaType = "BOOLEAN" -> Bool(Truthy(value))
         [] figmaType = "STRING"  -> Str(StringOf(value))
         [] figmaType \in {"FLOAT", "NUMBER"} -> convertNumber(value, dtcgType)
         [] OTHER -> value

-----------------------------------------------------------------------------
(* Token tree: a JavaScript object is a node; tok is its $type/$value pair   *)
(* (NoTok when it has none) and kids maps its other keys to nodes.           *)

NoTok == [type |-> "none", value |-> Null]

EmptyNode == [tok |-> NoTok, kids |-> <<>>]

LeafNode(type, value) == [tok |-> [type |-> type, value |-> value], kids |-> <<>>]

Has(obj, key) == key \in DOMAIN obj

\* obj[key] = node
Put(obj, key, node) == [k \in DOMAIN obj \cup {key} |-> IF k = key THEN node ELSE obj[k]]

\* obj[key] || {}
GetOrEmpty(obj, key) == IF Has(obj, key) THEN obj[key] ELSE EmptyNode

\* code.js:2047..2051: for each segment, currentObject[segment] = currentObject[segment] || {}
RECURSIVE EnsureGroups(_, _)
EnsureGroups(node, segments) ==
  IF segments = <<>> THEN node
  ELSE [node EXCEPT !.kids =
          Put(node.kids, Head(segments),
              EnsureGroups(GetOrEmpty(node.kids, Head(segments)), Tail(segments)))]

\* code.js:2047..2079: walk all but the last segment, then assign the leaf
RECURSIVE SetToken(_, _, _)
SetToken(node, segments, leaf) ==
  IF Len(segments) = 1
    THEN [node EXCEPT !.kids = Put(node.kids, segments[1], leaf)]
    ELSE [node EXCEPT !.kids =
            Put(node.kids, Head(segments),
                SetToken(GetOrEmpty(node.kids, Head(segments)), Tail(segments), leaf))]

-----------------------------------------------------------------------------
(* Collection registry and path index *)

sMode1 == <<"m","o","d","e","-","1">>

sDefaultTokens == <<"d","e","f","a","u","l","t","-","t","o","k","e","n","s">>

\* sanitizeForDTCG(libraryName || 'unnamed-library')
SanitizedLibrary(libraryName) ==
  sanitizeForDTCG(IF libraryName = <<>> THEN UnnamedLibrary ELSE libraryName)

\* a signature that leaves the origin out
CollectionSignature_NameOnly(collection) == sanitizeForDTCG(collection.name)

\* code.js:1840..1842 and 1876..1878: sLibraryName + '::' + sCollectionName
CollectionSignature(collection) ==
  SanitizedLibrary(collection.libraryName) \o <<":", ":">> \o sanitizeForDTCG(collection.name)

\* suffixing with the raw library name instead of the sanitized one
getFinalCollectionKey_RawSuffix(used, collectionName, libraryName) ==
  LET sCollectionName == sanitizeForDTCG(collectionName)
      sLibraryName == SanitizedLibrary(libraryName)
      suffixedKey == sCollectionName \o <<"-">> \o libraryName
  IN  IF ~Has(used, sCollectionName)
        THEN [key |-> sCollectionName,
              used |-> Put(used, sCollectionName,
                           [libraryName |-> sLibraryName, finalKey |-> sCollectionName])]
      ELSE IF used[sCollectionName].libraryName = sLibraryName
        THEN [key |-> used[sCollectionName].finalKey, used |-> used]
      ELSE [key |-> suffixedKey,
            used |-> Put(used, suffixedKey,
                         [libraryName |-> sLibraryName, finalKey |-> suffixedKey])]

\* code.js:1810; used is usedCollectionNames, the result its new value and the key
getFinalCollectionKey(used, collectionName, libraryName) ==
  LET sCollectionName == sanitizeForDTCG(collectionName)
      sLibraryName == SanitizedLibrary(libraryName)
      suffixedKey == sCollectionName \o <<"-">> \o sLibraryName
  IN  IF ~Has(used, sCollectionName)
        THEN [key |-> sCollectionName,
              used |-> Put(used, sCollectionName,
                           [libraryName |-> sLibraryName, finalKey |-> sCollectionName])]
      ELSE IF used[sCollectionName].libraryName = sLibraryName
        THEN [key |-> used[sCollectionName].finalKey, used |-> used]
      ELSE [key |-> suffixedKey,
            used |-> Put(used, suffixedKey,
                         [libraryName |-> sLibraryName, finalKey |-> suffixedKey])]

\* variable.name.split('/').map(segment => sanitizeForDTCG(segment))
VariablePathSegments(name) ==
  LET parts == split(name, "/")
  IN  [i \in DOMAIN parts |-> sanitizeForDTCG(parts[i])]

\* code.js:1852..1863 and 1890..1909: index the variables of one collection;
\* needName is the local loop's extra guard on variable.name
RECURSIVE IndexVariables(_, _, _, _)
IndexVariables(map, variables, key, needName) ==
  IF variables = <<>> THEN map
  ELSE LET v == Head(variables)
           skip == v.id = <<>> \/ (needName /\ v.name = <<>>)
           next == IF skip THEN map
                   ELSE Put(map, v.id, [collectionKey |-> key,
                                        path |-> VariablePathSegments(v.name)])
       IN  IndexVariables(next, Tail(variables), key, needName)

\* code.js:1835..1865: the first pass over figmaData.local; st = [sigs, used, map]
RECURSIVE FirstPassLocal(_, _)
FirstPassLocal(st, collections) ==
  IF collections = <<>> THEN st
  ELSE LET c == Head(collections)
           r == getFinalCollectionKey(st.used, c.name, c.libraryName)
       IN  IF c.name = <<>> \/ CollectionSignature(c) \in st.sigs
             THEN FirstPassLocal(st, Tail(collections))
             ELSE FirstPassLocal(
                    [sigs |-> st.sigs, used |-> r.used,
                     map |-> IndexVariables(st.map, c.variables, r.key, TRUE)],
                    Tail(collections))

\* code.js:1868..1911: the first pass over figmaData.shared
RECURSIVE FirstPassShared(_, _)
FirstPassShared(st, collections) ==
  IF collections = <<>> THEN st
  ELSE LET c == Head(collections)
           r == getFinalCollectionKey(st.used, c.name, c.libraryName)
       IN  IF c.name = <<>> \/ CollectionSignature(c) \in st.sigs
             THEN FirstPassShared(st, Tail(collections))
             ELSE FirstPassShared(
                    [sigs |-> st.sigs \cup {CollectionSignature(c)}, used |-> r.used,
                     map |-> IndexVariables(st.map, c.variables, r.key, FALSE)],
                    Tail(collections))

\* code.js:2006..2017: one empty object per named mode, or 'mode-1' when there is no mode
RECURSIVE InitModes(_, _)
InitModes(kids, modes) ==
  IF modes = <<>> THEN kids
  ELSE InitModes(IF Head(modes).name = <<>> THEN kids
                 ELSE Put(kids, sanitizeForDTCG(Head(modes).name), EmptyNode),
                 Tail(modes))

NewCollectionNode(collection) ==
  [tok |-> NoTok,
   kids |-> IF collection.modes # <<>> THEN InitModes(<<>>, collection.modes)
            ELSE Put(<<>>, sMode1, EmptyNode)]

\* code.js:2030..2036: modes.find(m => m.modeId === modeId), 'mode-1' without a named match
ModeNameOf(collection, modeId) ==
  IF \E i \in DOMAIN collection.modes : collection.modes[i].modeId = modeId
    THEN LET i == CHOOSE j \in DOMAIN collection.modes :
                    /\ collection.modes[j].modeId = modeId
                    /\ \A k \in 1..(j - 1) : collection.modes[k].modeId # modeId
         IN  IF collection.modes[i].name # <<>>
               THEN sanitizeForDTCG(collection.modes[i].name) ELSE sMode1
    ELSE sMode1

\* code.js:1946: `{${[info.collectionKey, ...info.path].join('.')}}`
ReferenceString(info) ==
  <<"{">> \o join(<<info.collectionKey>> \o info.path, ".") \o <<"}">>

\* code.js:1943: `{${aliasId}}`
PlaceholderString(aliasId) == <<"{">> \o aliasId \o <<"}">>

\* code.js:2058: value && typeof value === 'object' && value.type === 'VARIABLE_ALIAS' && value.id
IsAliasValue(value) == value.t = "alias" /\ value.id # <<>>

\* code.js:2068: typeof processedValue === 'string' && startsWith('{') && endsWith('}')
IsReferenceString(value) ==
  value.t = "str" /\ startsWith(value.s, "{") /\ endsWith(value.s, "}")

\* code.js:2064..2079: the token for a processed value
TokenFor(variable, processedValue) ==
  LET dtcgType == resolveDTCGType(variable)
  IN  LeafNode(dtcgType,
               IF IsReferenceString(processedValue) THEN processedValue
               ELSE convertFigmaValueToDTCG(processedValue, variable.resolvedType, dtcgType))

\* the id under which a library variable is known before its import
LibraryIdOf(id) == <<"k">> \o id

\* the variable getVariableByIdAsync finds for an id: the imported counterpart
\* of a library id, the variable itself otherwise
FigmaLocalId(id) == IF id # <<>> /\ Head(id) = "k" THEN Tail(id) ELSE id

\* code.js:2217
WarningCountThreshold == 3

\* code.js:2217, the reciprocal of 0.1
WarningRatioReciprocal == 10

-----------------------------------------------------------------------------
(* State outside a run of createSimplifiedDTCGPayload *)

EmptyMap == <<>>

NoResult == [t |-> "pending"]

NoCall == [fn |-> "none"]

\* code.js:71..74 and 81..87: the fetch stage as the module is loaded; the
\* document plays no part where nothing is fetched
FetchIdle ==
  /\ document = [name |-> <<>>, local |-> <<>>, library |-> <<>>]
  /\ allFetchedVariablesPayload = [local |-> <<>>, shared |-> <<>>]
  /\ importedLibraryVariableIds = {}
  /\ variableKeyToIdMap = <<>>
  /\ variableIdToKeyMap = <<>>
  /\ console = <<>>
  /\ fetching = [pc |-> "idle"]
  /\ returned = <<>>

IdlePipeline ==
  /\ FetchIdle
  /\ figmaData = [local |-> <<>>, shared |-> <<>>]
  /\ variableIdToPathMap = EmptyMap
  /\ unresolvedAliaseIdsSuspectedMissingSource = {}
  /\ processedCollectionSignatures = {}
  /\ usedCollectionNames = EmptyMap
  /\ dtcgPayload = EmptyMap
  /\ pc = "idle"
  /\ cur = [list |-> "none"]
  /\ uiMessages = <<>>
  /\ history = <<>>
  /\ pcOther = "idle"

pipelineVars ==
  <<figmaData, variableIdToPathMap, unresolvedAliaseIdsSuspectedMissingSource,
    processedCollectionSignatures, usedCollectionNames, dtcgPayload,
    pc, cur, uiMessages, history, pcOther, fetchVars>>

\* code.js:1363, remBaseFontSize = 16
DefaultRemBaseFontSize == 16 * Scale

-----------------------------------------------------------------------------
(* SpecType: resolveDTCGType applied to one variable *)

MaxScopes == 2

ScopeUniverse ==
  PIXEL_DIMENSION_SCOPES \cup UNITLESS_NUMERIC_SCOPES
     \cup {"ALL_SCOPES", "TEXT_CONTENT", "FONT_FAMILY"}

TypeNames ==
  { <<"s","i","z","e">>,
    <<"F","o","n","t","W","e","i","g","h","t","/","b","o","l","d">>,
    <<"t","y","p","e","/","f","o","n","t","-","w","e","i","g","h","t">>,
    <<"f","o","n","t","f","a","m","i","l","y">>,
    <<"F","o","n","t","-","F","a","m","i","l","y","/","b","o","d","y">>,
    <<"w","e","i","g","h","t">> }

TypeInputs ==
  { [fn |-> "resolveDTCGType",
     variable |-> [name |-> n, resolvedType |-> rt, scopes |-> sc]] :
       n \in TypeNames,
       rt \in {"COLOR", "STRING", "BOOLEAN", "FLOAT"},
       sc \in { x \in SUBSET ScopeUniverse : Cardinality(x) <= MaxScopes } }

InitType ==
  /\ IdlePipeline
  /\ useRemUnits = FALSE
  /\ remBaseFontSize = DefaultRemBaseFontSize
  /\ callArgs \in TypeInputs
  /\ callResult = NoResult

ClassifyVariable ==
  /\ callArgs.fn = "resolveDTCGType"
  /\ callResult = NoResult
  /\ callResult' = [t |-> "type", type |-> resolveDTCGType(callArgs.variable)]
  /\ UNCHANGED <<pipelineVars, useRemUnits, remBaseFontSize, callArgs>>

NextType == ClassifyVariable

SpecType == InitType /\ [][NextType]_vars

-----------------------------------------------------------------------------
(* SpecConvert: convertFigmaValueToDTCG applied to one literal value *)

ChannelSteps == 2

ChannelValues == { (i * Scale) \div ChannelSteps : i \in 0..ChannelSteps }

\* alpha: 0, 0.25, 0.5, 0.9984, 0.9985, 0.999, 0.9995 and 1
AlphaValues == {0, 2500, 5000, 9984, 9985, 9990, 9995, Scale}

\* 0, 0.0004, 0.0005, 1, 1.2345, 4.5, 7.9995, 10, 12, 16, 24, -1.0005, -2.5
NumberValues ==
  {0, 4, 5, 10000, 12345, 45000, 79995, 100000, 120000, 160000, 240000, -10005, -25000}

BaseFontSizes == {0, 10 * Scale, DefaultRemBaseFontSize}

DtcgTypes ==
  TYPES_REQUIRING_PX \cup {"number", "fontWeight", "opacity", "color", "string", "fontFamily"}

TextValues == { <<"I","n","t","e","r">>, <<"1","6","p","x">>, <<>> }

ConvertInputs ==
  { [fn |-> "convertFigmaValueToDTCG", value |-> Color(r, g, b, a),
     figmaType |-> "COLOR", dtcgType |-> "color"] :
       r \in ChannelValues, g \in ChannelValues, b \in ChannelValues, a \in AlphaValues }
  \cup
  { [fn |-> "convertFigmaValueToDTCG", value |-> Num(n),
     figmaType |-> "FLOAT", dtcgType |-> ty] :
       n \in NumberValues, ty \in DtcgTypes \ {"color", "string", "fontFamily"} }
  \cup
  { [fn |-> "convertFigmaValueToDTCG", value |-> Bool(b),
     figmaType |-> "BOOLEAN", dtcgType |-> "string"] : b \in BOOLEAN }
  \cup
  { [fn |-> "convertFigmaValueToDTCG", value |-> Str(s),
     figmaType |-> "STRING", dtcgType |-> ty] :
       s \in TextValues, ty \in {"string", "fontFamily"} }

InitConvert ==
  /\ IdlePipeline
  /\ useRemUnits \in BOOLEAN
  /\ remBaseFontSize \in BaseFontSizes
  /\ callArgs \in ConvertInputs
  /\ callResult = NoResult

ConvertValue ==
  /\ callArgs.fn = "convertFigmaValueToDTCG"
  /\ callResult = NoResult
  /\ callResult' = [t |-> "value",
                    value |-> convertFigmaValueToDTCG(callArgs.value, callArgs.figmaType,
                                                      callArgs.dtcgType)]
  /\ UNCHANGED <<pipelineVars, useRemUnits, remBaseFontSize, callArgs>>

NextConvert == ConvertValue

SpecConvert == InitConvert /\ [][NextConvert]_vars

-----------------------------------------------------------------------------
(* createSimplifiedDTCGPayload, one action per synchronous stretch *)

otherVars ==
  <<figmaData, useRemUnits, remBaseFontSize, callArgs, callResult, pcOther, fetchVars>>

CurrentCollections == IF cur.list = "local" THEN figmaData.local ELSE figmaData.shared

CurrentCollection == CurrentCollections[cur.ci]

CurrentVariable == CurrentCollection.variables[cur.vi]

\* one entry [modeId, value] of Object.entries(variable.valuesByMode)
CurrentEntry == CurrentVariable.valuesByMode[cur.mi]

CurrentModeName == ModeNameOf(CurrentCollection, CurrentEntry.modeId)

CurrentPath == VariablePathSegments(CurrentVariable.name)

Place == [list |-> cur.list, ci |-> cur.ci, vi |-> cur.vi, mi |-> cur.mi]

\* code.js:1833..1911: the path index the first pass builds from empty maps
PathIndexOf(data) ==
  FirstPassShared(
    FirstPassLocal([sigs |-> {}, used |-> <<>>, map |-> <<>>], data.local),
    data.shared).map

\* code.js:1798..1915: clear the maps, run the first pass, reset the tracking
StartRun ==
  /\ pc = "start"
  /\ variableIdToPathMap' = PathIndexOf(figmaData)
  /\ unresolvedAliaseIdsSuspectedMissingSource' = {}
  /\ processedCollectionSignatures' = {}
  /\ usedCollectionNames' = <<>>
  /\ dtcgPayload' = <<>>
  /\ cur' = [list |-> "local", ci |-> 1, vi |-> 0, mi |-> 0, key |-> <<>>]
  /\ pc' = "collection"
  /\ UNCHANGED <<uiMessages, history, otherVars>>

\* code.js:1983..2017 and 2088..2120: the head of one iteration over a collection
NextCollection ==
  /\ pc = "collection"
  /\ UNCHANGED <<variableIdToPathMap, unresolvedAliaseIdsSuspectedMissingSource,
                 uiMessages, otherVars>>
  /\ IF cur.ci > Len(CurrentCollections)
       THEN /\ IF cur.list = "local"
                 THEN cur' = [cur EXCEPT !.list = "shared", !.ci = 1] /\ pc' = pc
                 ELSE cur' = cur /\ pc' = "finish"
            /\ UNCHANGED <<processedCollectionSignatures, usedCollectionNames,
                           dtcgPayload, history>>
       ELSE LET c == CurrentCollection
                sig == CollectionSignature(c)
                r == getFinalCollectionKey(usedCollectionNames, c.name, c.libraryName)
            IN  IF c.name = <<>>
                  THEN /\ cur' = [cur EXCEPT !.ci = @ + 1]
                       /\ UNCHANGED <<pc, processedCollectionSignatures,
                                      usedCollectionNames, dtcgPayload, history>>
                ELSE IF sig \in processedCollectionSignatures
                  THEN /\ cur' = [cur EXCEPT !.ci = @ + 1]
                       /\ history' = Append(history, [ev |-> "skip", at |-> Place, sig |-> sig])
                       /\ UNCHANGED <<pc, processedCollectionSignatures,
                                      usedCollectionNames, dtcgPayload>>
                ELSE /\ processedCollectionSignatures' = processedCollectionSignatures \cup {sig}
                     /\ usedCollectionNames' = r.used
                     /\ dtcgPayload' = Put(dtcgPayload, r.key, NewCollectionNode(c))
                     /\ cur' = [cur EXCEPT !.vi = 1, !.mi = 1, !.key = r.key]
                     /\ pc' = "variable"
                     /\ history' = Append(history,
                                     [ev |-> "entry", at |-> Place, sig |-> sig, key |-> r.key])

\* dtcgPayload with the mode object and the group objects of the current value in place
WithGroups ==
  LET coll == dtcgPayload[cur.key]
      mode == GetOrEmpty(coll.kids, CurrentModeName)
      path == CurrentPath
  IN  Put(dtcgPayload, cur.key,
          [coll EXCEPT !.kids =
             Put(coll.kids, CurrentModeName,
                 EnsureGroups(mode, SubSeq(path, 1, Len(path) - 1)))])

\* code.js:2076: currentObject[variableKey] = { $type, $value }
WithToken(tree, leaf) ==
  LET coll == tree[cur.key]
  IN  Put(tree, cur.key,
          [coll EXCEPT !.kids =
             Put(coll.kids, CurrentModeName,
                 SetToken(coll.kids[CurrentModeName], CurrentPath, leaf))])

\* every variable of the input
AllVariables ==
  UNION { Range(c.variables) : c \in Range(figmaData.local) \cup Range(figmaData.shared) }

\* code.js:1920 and 1927: variableIdToPathMap.get(id)
PathInfo(id) == variableIdToPathMap[id]

TokenEvent(leaf) ==
  [ev |-> "token", at |-> Place, key |-> cur.key, mode |-> CurrentModeName,
   path |-> CurrentPath, tok |-> leaf.tok]

\* code.js:2021..2080 and 2124..2183: one step of the loops over the variables of
\* a collection and over the entries of valuesByMode, up to the next await
ProcessValue ==
  /\ pc = "variable"
  /\ UNCHANGED <<variableIdToPathMap, processedCollectionSignatures, usedCollectionNames,
                 unresolvedAliaseIdsSuspectedMissingSource, uiMessages, otherVars>>
  /\ IF cur.vi > Len(CurrentCollection.variables)
       THEN /\ cur' = [cur EXCEPT !.ci = @ + 1]
            /\ pc' = "collection"
            /\ UNCHANGED <<dtcgPayload, history>>
     ELSE IF \/ CurrentVariable.name = <<>>
             \/ cur.mi > Len(CurrentVariable.valuesByMode)
       THEN /\ cur' = [cur EXCEPT !.vi = @ + 1, !.mi = 1]
            /\ UNCHANGED <<pc, dtcgPayload, history>>
     ELSE LET value == CurrentEntry.value
              direct == IsAliasValue(value) /\ Has(variableIdToPathMap, value.id)
              processedValue ==
                IF direct THEN Str(ReferenceString(PathInfo(value.id))) ELSE value
              leaf == TokenFor(CurrentVariable, processedValue)
          IN  IF IsAliasValue(value) /\ ~direct
                THEN \* await figma.variables.getVariableByIdAsync(aliasId)
                     /\ pc' = "lookup"
                     /\ dtcgPayload' = WithGroups
                     /\ UNCHANGED <<cur, history>>
                ELSE /\ dtcgPayload' = WithToken(WithGroups, leaf)
                     /\ cur' = [cur EXCEPT !.mi = @ + 1]
                     /\ history' =
                          (IF direct
                             THEN Append(history,
                                    [ev |-> "alias", at |-> Place, id |-> value.id,
                                     lookups |-> 0, found |-> TRUE,
                                     value |-> processedValue])
                             ELSE history) \o <<TokenEvent(leaf)>>
                     /\ UNCHANGED pc

\* what figma.variables.getVariableByIdAsync(aliasId) may settle with: null, a
\* rejection, or the variable Figma knows under that id
LookupOutcomes(aliasId) ==
  {[t |-> "null"], [t |-> "throws"]}
    \cup {[t |-> "variable", id |-> FigmaLocalId(aliasId)]}

\* code.js:1925..1947 and 2063..2079: the lookup settles; the retry, the
\* placeholder and the token assignment follow
LookupReturns ==
  /\ pc = "lookup"
  /\ \E outcome \in LookupOutcomes(CurrentEntry.value.id) :
       LET aliasId == CurrentEntry.value.id
           found == /\ outcome.t = "variable"
                    /\ outcome.id # <<>>
                    /\ Has(variableIdToPathMap, outcome.id)
           hasAnyVariables == DOMAIN variableIdToPathMap # {}
           processedValue ==
             IF found THEN Str(ReferenceString(PathInfo(outcome.id)))
             ELSE Str(PlaceholderString(aliasId))
           leaf == TokenFor(CurrentVariable, processedValue)
       IN  /\ unresolvedAliaseIdsSuspectedMissingSource' =
                IF ~found /\ hasAnyVariables
                  THEN unresolvedAliaseIdsSuspectedMissingSource \cup {aliasId}
                  ELSE unresolvedAliaseIdsSuspectedMissingSource
           /\ dtcgPayload' = WithToken(dtcgPayload, leaf)
           /\ history' = history \o
                <<[ev |-> "alias", at |-> Place, id |-> aliasId, lookups |-> 1,
                   found |-> found, value |-> processedValue],
                  TokenEvent(leaf)>>
  /\ cur' = [cur EXCEPT !.mi = @ + 1]
  /\ pc' = "variable"
  /\ UNCHANGED <<variableIdToPathMap, processedCollectionSignatures, usedCollectionNames,
                 uiMessages, otherVars>>

\* a warning decided by the count alone
WarningDue_CountOnly(unresolvedCount, totalResolvedVariables) ==
  unresolvedCount >= WarningCountThreshold

\* code.js:2217: size >= 3 || size / Math.max(totalResolvedVariables, 1) > 0.1
WarningDue(unresolvedCount, totalResolvedVariables) ==
  \/ unresolvedCount >= WarningCountThreshold
  \/ unresolvedCount * WarningRatioReciprocal
       > (IF totalResolvedVariables > 1 THEN totalResolvedVariables ELSE 1)

\* code.js:2189..2238: the default collection, the warning, the return
FinishRun ==
  /\ pc = "finish"
  /\ dtcgPayload' =
       IF DOMAIN dtcgPayload = {}
         THEN Put(<<>>, sDefaultTokens, [tok |-> NoTok, kids |-> Put(<<>>, sMode1, EmptyNode)])
         ELSE dtcgPayload
  /\ LET unresolvedCount == Cardinality(unresolvedAliaseIdsSuspectedMissingSource)
         totalResolvedVariables == Cardinality(DOMAIN variableIdToPathMap)
     IN  uiMessages' =
           IF unresolvedCount > 0 /\ WarningDue(unresolvedCount, totalResolvedVariables)
             THEN Append(uiMessages,
                    [type |-> "warning-potential-missing-source",
                     unresolvedCount |-> unresolvedCount,
                     totalVariables |-> totalResolvedVariables])
             ELSE uiMessages
  /\ pc' = "done"
  /\ UNCHANGED <<variableIdToPathMap, unresolvedAliaseIdsSuspectedMissingSource,
                 processedCollectionSignatures, usedCollectionNames, cur, history, otherVars>>

Next ==
  \/ StartRun
  \/ NextCollection
  \/ ProcessValue
  \/ LookupReturns
  \/ FinishRun

-----------------------------------------------------------------------------
(* Spec: runs over local and shared collections whose names and origins      *)
(* coincide, differ, or meet after sanitizing                                *)

MaxLocal == 2

MaxShared == 2

sSpacing == <<"S","p","a","c","i","n","g">>

sSpacingDesignSystem ==
  <<"S","p","a","c","i","n","g"," ","D","e","s","i","g","n","S","y","s","t","e","m">>

sDesignSystem == <<"D","e","s","i","g","n","S","y","s","t","e","m">>

sAcme == <<"A","c","m","e">>

CollectionNames == {sSpacing, sSpacingDesignSystem}

LibraryNames == {sDesignSystem, sAcme}

sGap == <<"g","a","p">>

sRef == <<"r","e","f">>

sLight == <<"L","i","g","h","t">>

BaseModes == <<[modeId |-> "m1", name |-> sLight]>>

Variable(id, name, resolvedType, scopes, valuesByMode) ==
  [id |-> id, name |-> name, resolvedType |-> resolvedType, scopes |-> scopes,
   valuesByMode |-> valuesByMode]

\* the i-th local collection: a literal, and in the first one an alias to the
\* library id of the first shared variable
LocalVariables(i) ==
  <<Variable(<<"l", Digits[i + 1]>>, sGap, "FLOAT", {"GAP"},
             <<[modeId |-> "m1", value |-> Num(i * Scale)]>>)>>
  \o (IF i = 1
        THEN <<Variable(<<"r", "1">>, sRef, "FLOAT", {"GAP"},
                        <<[modeId |-> "m1", value |-> Alias(LibraryIdOf(<<"s", "1">>))]>>)>>
        ELSE <<>>)

\* the j-th shared collection: a literal, and in the first one an alias to the
\* first local variable
SharedVariables(j) ==
  <<Variable(<<"s", Digits[j + 1]>>, sGap, "FLOAT", {"GAP"},
             <<[modeId |-> "m1", value |-> Num((10 + j) * Scale)]>>)>>
  \o (IF j = 1
        THEN <<Variable(<<"q", "1">>, sRef, "FLOAT", {"GAP"},
                        <<[modeId |-> "m1", value |-> Alias(<<"l", "1">>)]>>)>>
        ELSE <<>>)

SeqsUpTo(S, n) == UNION { [1..k -> S] : k \in 0..n }

\* what fetchLocalCollections builds: every local collection carries the document name
LocalLists(documentName) ==
  { [i \in DOMAIN names |->
       [name |-> names[i], libraryName |-> documentName, modes |-> BaseModes,
        variables |-> LocalVariables(i)]] :
      names \in SeqsUpTo(CollectionNames, MaxLocal) }

\* what fetchSharedCollections builds
SharedLists ==
  { [j \in DOMAIN picks |->
       [name |-> picks[j][1], libraryName |-> picks[j][2], modes |-> BaseModes,
        variables |-> SharedVariables(j)]] :
      picks \in SeqsUpTo(CollectionNames \X LibraryNames, MaxShared) }

RunInputs ==
  { [local |-> l, shared |-> sh] :
      l \in UNION { LocalLists(d) : d \in LibraryNames }, sh \in SharedLists }

\* the state in which createSimplifiedDTCGPayload is entered
RunStart ==
  /\ FetchIdle
  /\ useRemUnits = FALSE
  /\ remBaseFontSize = DefaultRemBaseFontSize
  /\ variableIdToPathMap = <<>>
  /\ unresolvedAliaseIdsSuspectedMissingSource = {}
  /\ processedCollectionSignatures = {}
  /\ usedCollectionNames = <<>>
  /\ dtcgPayload = <<>>
  /\ pc = "start"
  /\ cur = [list |-> "none"]
  /\ uiMessages = <<>>
  /\ history = <<>>
  /\ callArgs = NoCall
  /\ callResult = NoResult

Init == figmaData \in RunInputs /\ RunStart /\ pcOther = "idle"

Spec == Init /\ [][Next]_vars

-----------------------------------------------------------------------------
(* Type classifier properties (SpecType) *)

Classified == callResult.t = "type"

NameHints(name, a, b) ==
  includes(toLowerCase(name), a) \/ includes(toLowerCase(name), b)

\* C7: resolveDTCGType on a FLOAT variable follows the decision table: only
\* pixel-dimension scopes give "dimension", or the specific type when exactly
\* one pixel-dimension scope matched and it has one; only unitless-numeric
\* scopes give "number", or the specific type when exactly one matched; both
\* categories give "number"; neither gives "fontWeight" when the name contains
\* "fontweight" or "font-weight" (letter case ignored) and "number" otherwise.
C7_FloatDecisionTable ==
  (Classified /\ callArgs.variable.resolvedType = "FLOAT") =>
    LET v == callArgs.variable
        P == { s \in v.scopes : s \in PIXEL_DIMENSION_SCOPES }
        U == { s \in v.scopes : s \in UNITLESS_NUMERIC_SCOPES }
        out == callResult.type
    IN  /\ (P # {} /\ U = {}) =>
              /\ P = {"FONT_SIZE"} => out = "fontSize"
              /\ P = {"LINE_HEIGHT"} => out = "lineHeight"
              /\ P = {"LETTER_SPACING"} => out = "letterSpacing"
              /\ P = {"CORNER_RADIUS"} => out = "borderRadius"
              /\ P = {"STROKE_WEIGHT"} => out = "borderWidth"
              /\ (\A s \in DOMAIN SPECIFIC_PIXEL_DIMENSION_TYPE_MAP : P # {s})
                    => out = "dimension"
        /\ (U # {} /\ P = {}) =>
              /\ U = {"FONT_WEIGHT"} => out = "fontWeight"
              /\ U = {"LAYER_OPACITY"} => out = "opacity"
              /\ Cardinality(U) > 1 => out = "number"
        /\ (P # {} /\ U # {}) => out = "number"
        /\ (P = {} /\ U = {}) =>
              out = IF NameHints(v.name, sFontweight, sFontDashWeight)
                      THEN "fontWeight" ELSE "number"

\* a variable scoped for font size and font weight at once is typed "number"
C7_Witness ==
  /\ Classified
  /\ callArgs.variable.resolvedType = "FLOAT"
  /\ callArgs.variable.scopes = {"FONT_SIZE", "FONT_WEIGHT"}
  /\ callResult.type = "number"

\* C8: a Color variable is typed "color", a Boolean variable "string", and a
\* Text variable "string" unless its scopes (the FONT_FAMILY scope) or its name
\* ("fontfamily", "font-family") indicate a font family, then "fontFamily".
C8_NonNumericTypes ==
  Classified =>
    LET v == callArgs.variable
        out == callResult.type
    IN  /\ v.resolvedType = "COLOR" => out = "color"
        /\ v.resolvedType = "BOOLEAN" => out = "string"
        /\ v.resolvedType = "STRING" =>
              out = IF "FONT_FAMILY" \in v.scopes
                       \/ NameHints(v.name, sFontfamily, sFontDashFamily)
                      THEN "fontFamily" ELSE "string"

-----------------------------------------------------------------------------
(* Value converter properties (SpecConvert) *)

Converted == callResult.t = "value"

\* q / Scale is p / d rounded to three decimals (d > 0), ties upwards
IsNearestThousandth(q, p, d) ==
  /\ q % (Scale \div Thousand) = 0
  /\ LET k == q \div (Scale \div Thousand)
     IN  /\ -d < 2 * (k * d - Thousand * p)
         /\ 2 * (k * d - Thousand * p) <= d

\* s spells a decimal number without an exponent and without trailing zeros
NoTrailingZeros(s) ==
  (\E i \in DOMAIN s : s[i] = ".") => s[Len(s)] \notin {"0", "."}

\* s is the canonical spelling of a number of thousandths followed by unit
SpellsWithUnit(s, q, unit) ==
  /\ Len(s) > Len(unit)
  /\ SubSeq(s, Len(s) - Len(unit) + 1, Len(s)) = unit
  /\ LET digits == SubSeq(s, 1, Len(s) - Len(unit))
     IN  /\ NoTrailingZeros(digits)
         /\ ParseFloatString(digits) = Num(q)
         /\ \A i \in DOMAIN digits : digits[i] \in Range(Digits) \cup {".", "-"}

ExpectedHex(c) ==
  Str(<<"#">> \o HexByte(c.r) \o HexByte(c.g) \o HexByte(c.b))

IsHslaWithRoundedAlpha(s, c) ==
  \E q \in 0..Scale :
     /\ IsNearestThousandth(q, c.a, Scale)
     /\ s = Str(HslaString(rgbToHsl(c.r, c.g, c.b), Num(q)))

\* C9: a color literal with alpha >= 0.999 is rendered as the 6-digit hex
\* string of its channels, and with every alpha below 0.999 as
\* "hsla(h, s%, l%, a)" with alpha rounded to 3 decimals.
C9_ColorHexFromAlpha999 ==
  (Converted /\ callArgs.figmaType = "COLOR") =>
    LET c == callArgs.value
    IN  /\ c.a * Thousand >= 999 * Scale => callResult.value = ExpectedHex(c)
        /\ c.a * Thousand < 999 * Scale => IsHslaWithRoundedAlpha(callResult.value, c)

IsNumberCall ==
  Converted /\ callArgs.figmaType = "FLOAT" /\ callArgs.value.t = "num"

\* the literal rounded to three decimals
RoundedLiteral ==
  CHOOSE m \in (callArgs.value.n - Scale \div Thousand)..(callArgs.value.n + Scale \div Thousand) :
     IsNearestThousandth(m, callArgs.value.n, Scale)

Sixteen == Num(16 * Scale)

\* the number cases that do not depend on the base font size
NumberConversionCommon ==
  LET r == callResult.value
  IN  /\ (callArgs.dtcgType \in TYPES_REQUIRING_PX /\ ~useRemUnits) =>
            r.t = "str" /\ SpellsWithUnit(r.s, RoundedLiteral, <<"p","x">>)
      /\ callArgs.dtcgType \notin TYPES_REQUIRING_PX => r = Num(RoundedLiteral)
      /\ (callArgs.value = Sixteen /\ callArgs.dtcgType = "fontSize" /\ ~useRemUnits) =>
            r = Str(<<"1","6","p","x">>)
      /\ (callArgs.value = Sixteen /\ callArgs.dtcgType = "fontSize" /\ useRemUnits
            /\ remBaseFontSize = 16 * Scale) => r = Str(<<"1","r","e","m">>)

IsRemOf(r, base) ==
  /\ r.t = "str"
  /\ \E q \in { ParseFloatString(r.s).n } :
        /\ IsNearestThousandth(q, RoundedLiteral, base)
        /\ SpellsWithUnit(r.s, q, <<"r","e","m">>)

\* C10 as stated: in rem-mode every unit-bearing type gives
\* "<n / base-font-size>rem", whatever the base font size.
C10_RemWheneverRemMode ==
  IsNumberCall =>
    /\ NumberConversionCommon
    /\ (callArgs.dtcgType \in TYPES_REQUIRING_PX /\ useRemUnits) =>
          /\ callResult.value.t = "str"
          /\ SubSeq(callResult.value.s, Len(callResult.value.s) - 2,
                    Len(callResult.value.s)) = <<"r","e","m">>
          /\ remBaseFontSize # 0 => IsRemOf(callResult.value, remBaseFontSize)

\* C10 (amended): a number literal is rounded to 3 decimals with trailing
\* zeros stripped; a unit-bearing type gives "<n>px" when rem-mode is off and
\* "<n / base, rounded the same way>rem" when rem-mode is on and the base font
\* size is not 0; with rem-mode on and base font size 0 it falls back to
\* "<n>px"; every other type gives the unitless number.
C10_NumberConversion ==
  IsNumberCall =>
    /\ NumberConversionCommon
    /\ (callArgs.dtcgType \in TYPES_REQUIRING_PX /\ useRemUnits /\ remBaseFontSize # 0) =>
          IsRemOf(callResult.value, remBaseFontSize)
    /\ (callArgs.dtcgType \in TYPES_REQUIRING_PX /\ useRemUnits /\ remBaseFontSize = 0) =>
          /\ callResult.value.t = "str"
          /\ SpellsWithUnit(callResult.value.s, RoundedLiteral, <<"p","x">>)

\* 1.2345 as a line height in rem-mode with base 10: 1.235 / 10 rounds to 0.124
C10_Witness ==
  /\ IsNumberCall
  /\ callArgs.value = Num(12345)
  /\ callArgs.dtcgType = "lineHeight"
  /\ useRemUnits
  /\ remBaseFontSize = 10 * Scale
  /\ callResult.value = Str(<<"0",".","1","2","4","r","e","m">>)

-----------------------------------------------------------------------------
(* Collection registry properties (Spec) *)

Done == pc = "done"

CollectionAt(at) ==
  IF at.list = "local" THEN figmaData.local[at.ci] ELSE figmaData.shared[at.ci]

\* the positions in history at which a collection received its tree entry
EntryEvents == { i \in DOMAIN history : history[i].ev = "entry" }

SkipEvents == { i \in DOMAIN history : history[i].ev = "skip" }

TokenEvents == { i \in DOMAIN history : history[i].ev = "token" }

NameOf(i) == sanitizeForDTCG(CollectionAt(history[i].at).name)

OriginOf(i) ==
  LET libraryName == CollectionAt(history[i].at).libraryName
  IN  sanitizeForDTCG(IF libraryName = <<>> THEN UnnamedLibrary ELSE libraryName)

\* the sanitized (name, origin) pairs of the collections of a list
IdentitiesIn(collections) ==
  { <<sanitizeForDTCG(collections[i].name),
      sanitizeForDTCG(IF collections[i].libraryName = <<>> THEN UnnamedLibrary
                      ELSE collections[i].libraryName)>> : i \in DOMAIN collections }

NamesIn(collections) == { id[1] : id \in IdentitiesIn(collections) }

EntriesOfIdentity(id) == { i \in EntryEvents : NameOf(i) = id[1] /\ OriginOf(i) = id[2] }

KeysOfName(name) == { history[i].key : i \in { j \in EntryEvents : NameOf(j) = name } }

\* C1 as stated: for every collection name that is both in the local list and
\* in the shared list, the finished tree holds exactly one top-level entry for
\* the collections of that name, whatever their origins.
C1_OneEntryPerName ==
  Done =>
    \A name \in NamesIn(figmaData.local) \cap NamesIn(figmaData.shared) :
      /\ Cardinality(KeysOfName(name)) = 1
      /\ KeysOfName(name) \subseteq DOMAIN dtcgPayload

\* C1 amended: for every collection identity (sanitized name and sanitized
\* origin) that is both in the local list and in the shared list, and for every
\* other identity of the input, exactly one collection of that identity
\* receives an entry, under one key, and that key is a top-level key of the
\* finished tree; a collection of the same name and another origin is another
\* identity with an entry of its own.
C1_OneEntryPerIdentity ==
  Done =>
    \A id \in IdentitiesIn(figmaData.local) \cup IdentitiesIn(figmaData.shared) :
      /\ Cardinality(EntriesOfIdentity(id)) = 1
      /\ \A i \in EntriesOfIdentity(id) : history[i].key \in DOMAIN dtcgPayload

\* a finished run in which one identity is in both lists and was skipped the
\* second time, next to a shared collection of the same name and another origin
C1_Witness ==
  /\ Done
  /\ \E id \in IdentitiesIn(figmaData.local) \cap IdentitiesIn(figmaData.shared) :
       /\ Cardinality(EntriesOfIdentity(id)) = 1
       /\ \E other \in IdentitiesIn(figmaData.shared) :
            /\ other[1] = id[1] /\ other[2] # id[2]
            /\ Cardinality(EntriesOfIdentity(other)) = 1
  /\ SkipEvents # {}

\* the entries made before position i under the key k
EarlierWithKey(i, k) == { j \in EntryEvents : j < i /\ history[j].key = k }

Latest(S) == CHOOSE j \in S : \A k \in S : k <= j

SuffixedKeyOf(i) == NameOf(i) \o <<"-">> \o OriginOf(i)

\* C2 as stated: the first collection processed with a given sanitized name
\* gets the key sanitize(name); a later one of the same sanitized name and a
\* different origin gets sanitize(name) + "-" + sanitize(origin).
C2_FirstOfNameGetsPlainKey ==
  \A i \in EntryEvents :
    LET sameName == { j \in EntryEvents : j < i /\ NameOf(j) = NameOf(i) }
    IN  /\ sameName = {} => history[i].key = NameOf(i)
        /\ (\E j \in sameName : OriginOf(j) # OriginOf(i))
             => history[i].key = SuffixedKeyOf(i)

\* C2 amended: a processed collection gets the key sanitize(name) when no
\* collection processed earlier in the run was given that key, and also when
\* the collection that was last given that key has the same sanitized origin;
\* otherwise it gets sanitize(name) + "-" + sanitize(origin), whether or not
\* that key is already in use.
C2_KeyAssignment ==
  \A i \in EntryEvents :
    LET claimed == EarlierWithKey(i, NameOf(i))
    IN  history[i].key =
          IF claimed = {} THEN NameOf(i)
          ELSE IF OriginOf(Latest(claimed)) = OriginOf(i) THEN NameOf(i)
          ELSE SuffixedKeyOf(i)

\* a finished run over a local "Spacing" and a "Spacing" of the library
\* "DesignSystem", with the keys "spacing" and "spacing-designsystem"
C2_Witness ==
  /\ Done
  /\ \E i, j \in EntryEvents :
       /\ i < j
       /\ history[i].at.list = "local" /\ history[j].at.list = "shared"
       /\ CollectionAt(history[i].at).name = sSpacing
       /\ CollectionAt(history[j].at).name = sSpacing
       /\ CollectionAt(history[j].at).libraryName = sDesignSystem
       /\ history[i].key = <<"s","p","a","c","i","n","g">>
       /\ history[j].key =
            <<"s","p","a","c","i","n","g","-","d","e","s","i","g","n","s","y","s","t","e","m">>
       /\ \A k \in {i, j} : history[k].key \in DOMAIN dtcgPayload

\* the tokens below a node of the tree, each with its path from the node
RECURSIVE Leaves(_, _)
Leaves(node, prefix) ==
  (IF node.tok # NoTok THEN {<<prefix, node.tok>>} ELSE {})
    \cup UNION { Leaves(node.kids[k], Append(prefix, k)) : k \in DOMAIN node.kids }

SamePlace(a, b) == a.list = b.list /\ a.ci = b.ci

\* the tokens written for the collection that received its entry at position i
TokensOf(i) ==
  { <<(<<history[t].mode>> \o history[t].path), history[t].tok>> :
      t \in { u \in TokenEvents : SamePlace(history[u].at, history[i].at) } }

\* C3: when a collection is skipped because an earlier collection has its
\* signature, the earlier one was processed first, the finished tree's entry
\* under the earlier one's key holds exactly the modes and the tokens of the
\* earlier one, and the skipped one wrote no token.
C3_FirstOfSignatureAuthoritative ==
  Done =>
    \A s \in SkipEvents :
      LET firsts == { i \in EntryEvents :
                        NameOf(i) = NameOf(s) /\ OriginOf(i) = OriginOf(s) }
      IN  /\ firsts # {}
          /\ \A i \in firsts :
               LET first == CollectionAt(history[i].at)
                   entry == dtcgPayload[history[i].key]
               IN  /\ i < s
                   /\ history[i].key \in DOMAIN dtcgPayload
                   /\ DOMAIN entry.kids =
                        DOMAIN NewCollectionNode(first).kids
                          \cup { leaf[1][1] : leaf \in TokensOf(i) }
                   /\ Leaves(entry, <<>>) = TokensOf(i)
          /\ \A t \in TokenEvents : ~SamePlace(history[t].at, history[s].at)

-----------------------------------------------------------------------------
(* SpecAlias: runs over a local collection whose variables alias a chain of  *)
(* shared variables, a library id and ids no collection holds, next to a      *)
(* number of plain variables                                                  *)

MaxBulk == 26

MaxUnknown == 3

\* "VAR:999:k"
UnknownId(k) == <<"V","A","R",":","9","9","9",":">> \o NatToString(k)

GapVariable(id, name, value) ==
  Variable(id, name, "FLOAT", {"GAP"}, <<[modeId |-> "m1", value |-> value]>>)

\* plain variables n/1 .. n/count
BulkVariables(count) ==
  [i \in 1..count |->
     GapVariable(<<"n">> \o NatToString(i), <<"n", "/">> \o NatToString(i), Num(i * Scale))]

\* aliases to the ids VAR:999:1 .. VAR:999:unknown, and one more alias to
\* VAR:999:1 when again is set
UnknownAliases(unknown, again) ==
  [k \in 1..unknown |->
     GapVariable(<<"u">> \o NatToString(k), <<"u">> \o NatToString(k), Alias(UnknownId(k)))]
  \o (IF again
        THEN <<GapVariable(<<"u", "0">>, <<"u", "0">>, Alias(UnknownId(1)))>>
        ELSE <<>>)

\* the local collection: the plain variables, ref that aliases the shared c
\* under its library id, a that aliases the shared b, and the unknown aliases
AliasLocal(count, unknown, again) ==
  [name |-> sSpacing, libraryName |-> sAcme, modes |-> BaseModes,
   variables |->
     BulkVariables(count)
       \o <<GapVariable(<<"r", "1">>, sRef, Alias(LibraryIdOf(<<"c", "1">>))),
            GapVariable(<<"a", "1">>, <<"a">>, Alias(<<"b", "1">>))>>
       \o UnknownAliases(unknown, again)]

\* the shared collection: b that aliases c, and the plain c
AliasShared ==
  [name |-> sSpacing, libraryName |-> sDesignSystem, modes |-> BaseModes,
   variables |->
     <<GapVariable(<<"b", "1">>, <<"b">>, Alias(<<"c", "1">>)),
       GapVariable(<<"c", "1">>, <<"c">>, Num(4 * Scale))>>]

AliasInputs ==
  { [local |-> <<AliasLocal(count, unknown, again)>>, shared |-> <<AliasShared>>] :
      count \in 0..MaxBulk, unknown \in 0..MaxUnknown, again \in BOOLEAN }

InitAlias == figmaData \in AliasInputs /\ RunStart /\ pcOther = "idle"

SpecAlias == InitAlias /\ [][Next]_vars

-----------------------------------------------------------------------------
(* SpecOverlap: a second pipeline run, started by a UI message that is       *)
(* handled while the first run is suspended in getVariableByIdAsync; the     *)
(* two runs share variableIdToPathMap and the unresolved set                  *)

MaxOverlapBulk == 1

runLocals ==
  <<figmaData, useRemUnits, remBaseFontSize, processedCollectionSignatures,
    usedCollectionNames, dtcgPayload, pc, cur, history, callArgs, callResult, fetchVars>>

\* code.js:754..757, 1299..1302 and 165..185: the handler of 'generate-dtcg'
\* calls fetchAndLogAllVariables, which calls resetPluginState and then awaits
OtherRunResets ==
  /\ pc = "lookup"
  /\ pcOther = "idle"
  /\ variableIdToPathMap' = <<>>
  /\ unresolvedAliaseIdsSuspectedMissingSource' = {}
  /\ pcOther' = "fetch"
  /\ UNCHANGED <<runLocals, uiMessages>>

\* code.js:1797..1915: the second run enters createSimplifiedDTCGPayload with
\* its own fetch of the same document, up to its first await
OtherRunIndexes ==
  /\ pc = "lookup"
  /\ pcOther = "fetch"
  /\ variableIdToPathMap' = PathIndexOf(figmaData)
  /\ unresolvedAliaseIdsSuspectedMissingSource' = {}
  /\ pcOther' = "build"
  /\ UNCHANGED <<runLocals, uiMessages>>

\* the ids the variables of the document alias
AliasTargets ==
  { v.valuesByMode[m].value.id :
      <<v, m>> \in { <<w, n>> \in AllVariables \X {1} :
                       /\ n \in DOMAIN w.valuesByMode
                       /\ IsAliasValue(w.valuesByMode[n].value) } }

\* code.js:1937..1943: the second run fails to resolve an alias and records it
OtherRunRecords ==
  /\ pc = "lookup"
  /\ pcOther = "build"
  /\ \E aliasId \in AliasTargets \ unresolvedAliaseIdsSuspectedMissingSource :
       /\ ~Has(variableIdToPathMap, aliasId)
       /\ DOMAIN variableIdToPathMap # {}
       /\ unresolvedAliaseIdsSuspectedMissingSource' =
            unresolvedAliaseIdsSuspectedMissingSource \cup {aliasId}
  /\ UNCHANGED <<runLocals, variableIdToPathMap, uiMessages, pcOther>>

\* code.js:2197..2238: the second run reaches the end of createSimplifiedDTCGPayload
OtherRunFinishes ==
  /\ pc = "lookup"
  /\ pcOther = "build"
  /\ LET unresolvedCount == Cardinality(unresolvedAliaseIdsSuspectedMissingSource)
         totalResolvedVariables == Cardinality(DOMAIN variableIdToPathMap)
     IN  uiMessages' =
           IF unresolvedCount > 0 /\ WarningDue(unresolvedCount, totalResolvedVariables)
             THEN Append(uiMessages,
                    [type |-> "warning-potential-missing-source",
                     unresolvedCount |-> unresolvedCount,
                     totalVariables |-> totalResolvedVariables])
             ELSE uiMessages
  /\ pcOther' = "done"
  /\ UNCHANGED <<runLocals, variableIdToPathMap, unresolvedAliaseIdsSuspectedMissingSource>>

OverlapInputs ==
  { [local |-> <<AliasLocal(count, unknown, again)>>, shared |-> <<AliasShared>>] :
      count \in 0..MaxOverlapBulk, unknown \in 0..MaxUnknown, again \in BOOLEAN }

InitOverlap == figmaData \in OverlapInputs /\ RunStart /\ pcOther = "idle"

NextOverlap ==
  \/ StartRun
  \/ NextCollection
  \/ ProcessValue
  \/ LookupReturns
  \/ FinishRun
  \/ OtherRunResets
  \/ OtherRunIndexes
  \/ OtherRunRecords
  \/ OtherRunFinishes

SpecOverlap == InitOverlap /\ [][NextOverlap]_vars

-----------------------------------------------------------------------------
(* Alias properties (SpecAlias, SpecOverlap) *)

AliasEvents == { i \in DOMAIN history : history[i].ev = "alias" }

RECURSIVE DottedPath(_)
DottedPath(segments) ==
  IF segments = <<>> THEN <<>>
  ELSE <<".">> \o Head(segments) \o DottedPath(Tail(segments))

\* "{collectionKey.seg1...segN}"
Braced(info) == Str(<<"{">> \o info.collectionKey \o DottedPath(info.path) \o <<"}">>)

RECURSIVE NodeAt(_, _)
NodeAt(node, path) ==
  IF path = <<>> THEN node
  ELSE IF Head(path) \in DOMAIN node.kids
    THEN NodeAt(node.kids[Head(path)], Tail(path))
  ELSE EmptyNode

\* the token the tree holds under a collection key, a mode and a path
TokenInTree(key, mode, path) ==
  IF key \in DOMAIN dtcgPayload
    THEN NodeAt(dtcgPayload[key], <<mode>> \o path).tok
    ELSE NoTok

UnresolvedEvents == { i \in AliasEvents : ~history[i].found }

\* the alias at position i of history went the way the resolver is specified
\* to go over the path index
ResolvedAsSpecified(i, index) ==
  LET e == history[i]
  IN  /\ i + 1 \in DOMAIN history
      /\ history[i + 1].ev = "token"
      /\ history[i + 1].at = e.at
      /\ history[i + 1].tok.value = e.value
      /\ TokenInTree(history[i + 1].key, history[i + 1].mode, history[i + 1].path).value
           = e.value
      /\ IF e.id \in DOMAIN index
           THEN e.lookups = 0 /\ e.value = Braced(index[e.id])
         ELSE /\ e.lookups = 1
              /\ IF e.found
                   THEN /\ FigmaLocalId(e.id) \in DOMAIN index
                        /\ e.value = Braced(index[FigmaLocalId(e.id)])
                   ELSE e.value = Str(<<"{">> \o e.id \o <<"}">>)

\* C4: for every alias value processed: a target id of the path index gives
\* the token value "{collectionKey.seg1...segN}" without a lookup; any other
\* target id costs exactly one external lookup, after which the id the lookup
\* returned is looked up again; when that fails too the token value is the
\* placeholder "{targetId}", and at the end of the run targetId is in the
\* unresolved set: no placeholder is emitted without being recorded.
C4_AliasResolution ==
  LET index == PathIndexOf(figmaData)
  IN  /\ \A i \in AliasEvents : ResolvedAsSpecified(i, index)
      /\ Done =>
           \A i \in UnresolvedEvents :
             history[i].id \in unresolvedAliaseIdsSuspectedMissingSource

\* C4 within a run that no other run overlaps, where moreover the unresolved
\* set holds nothing but the ids of the placeholders emitted
C4_SingleRun ==
  pcOther = "idle" =>
    /\ C4_AliasResolution
    /\ pc # "start" =>
         unresolvedAliaseIdsSuspectedMissingSource
           = { history[i].id : i \in UnresolvedEvents }

UnresolvedCount == Cardinality(unresolvedAliaseIdsSuspectedMissingSource)

TotalVariables == Cardinality(DOMAIN variableIdToPathMap)

WarningMessage ==
  [type |-> "warning-potential-missing-source",
   unresolvedCount |-> UnresolvedCount, totalVariables |-> TotalVariables]

\* C5: at the end of a run the 'warning-potential-missing-source' message has
\* been posted, once, if and only if the unresolved set has at least 3 ids or
\* more than one id per 10 variables of the path index; otherwise, and with an
\* empty unresolved set, nothing has been posted.
C5_WarningThreshold ==
  /\ ~Done => uiMessages = <<>>
  /\ Done =>
       uiMessages =
         IF UnresolvedCount >= 3 \/ 10 * UnresolvedCount > TotalVariables
           THEN <<WarningMessage>> ELSE <<>>

\* a finished run with one unresolved id among nine variables, and the warning
C5_Witness ==
  /\ Done
  /\ UnresolvedCount = 1
  /\ TotalVariables = 9
  /\ uiMessages = <<WarningMessage>>

AliasesTo(v, w) ==
  /\ v.valuesByMode # <<>>
  /\ v.valuesByMode[1].value.t = "alias"
  /\ v.valuesByMode[1].value.id = w.id

\* the token the tree holds for a variable, found where the index places it
TokenOfVariable(v, index) ==
  TokenInTree(index[v.id].collectionKey,
              ModeNameOf([modes |-> BaseModes], v.valuesByMode[1].modeId),
              index[v.id].path)

\* C6: when a variable A aliases a variable B that itself aliases a variable
\* C, the token of A in the finished tree refers to the path of B under the
\* key of B's collection, not to the path of C and not to the value of C.
C6_SingleHop ==
  Done =>
    LET index == PathIndexOf(figmaData)
    IN  \A a, b, c \in AllVariables :
          (AliasesTo(a, b) /\ AliasesTo(b, c) /\ {a.id, b.id, c.id} \subseteq DOMAIN index)
            => /\ TokenOfVariable(a, index).value = Braced(index[b.id])
               /\ TokenOfVariable(a, index).value # Braced(index[c.id])
               /\ TokenOfVariable(a, index).value # TokenOfVariable(c, index).value

\* C6 within a run that no other run overlaps
C6_SingleRun == pcOther = "idle" => C6_SingleHop

-----------------------------------------------------------------------------
(* Further value converter properties (SpecConvert) *)

\* C11: convertFigmaValueToDTCG on a Boolean literal returns the string
\* "true" or the string "false".
C11_BooleanAsString ==
  (Converted /\ callArgs.figmaType = "BOOLEAN" /\ callArgs.value.t = "bool")
    => callResult.value \in {Str(<<"t","r","u","e">>), Str(<<"f","a","l","s","e">>)}

-----------------------------------------------------------------------------
(* SpecRoundTrip: convertFigmaValueToDTCG applied to its own result *)

\* the converted value goes through the converter again, kind and type unchanged
ConvertAgain ==
  /\ callArgs.fn = "convertFigmaValueToDTCG"
  /\ callResult.t = "value"
  /\ callResult' = [t |-> "again", first |-> callResult.value,
                    value |-> convertFigmaValueToDTCG(callResult.value, callArgs.figmaType,
                                                      callArgs.dtcgType)]
  /\ UNCHANGED <<pipelineVars, useRemUnits, remBaseFontSize, callArgs>>

NextRoundTrip ==
  \/ ConvertValue
  \/ ConvertAgain

SpecRoundTrip == InitConvert /\ [][NextRoundTrip]_vars

ConvertedAgain == callResult.t = "again"

\* C12: for every literal value of every kind and every classified type, in
\* px-mode and in rem-mode, converting the converted value again gives the
\* same result.
C12_ConvertIdempotent ==
  ConvertedAgain => callResult.value = callResult.first

\* C12 outside the rem spelling: in px-mode, and for every result that is not
\* a rem string, the second conversion changes nothing
C12_IdempotentWithoutRem ==
  (ConvertedAgain /\ ~(callResult.first.t = "str" /\ endsWith(callResult.first.s, "m")))
    => callResult.value = callResult.first

-----------------------------------------------------------------------------
(* SpecTree: runs over one local collection with one or two modes whose      *)
(* variable names share prefixes                                              *)

MaxTreeVariables == 3

sDark == <<"D","a","r","k">>

TreeModes ==
  { <<[modeId |-> "m1", name |-> sLight]>>,
    <<[modeId |-> "m1", name |-> sLight], [modeId |-> "m2", name |-> sDark]>> }

\* "a", "a/b", "a/b/c", "x/y"
TreeNames ==
  { <<"a">>, <<"a","/","b">>, <<"a","/","b","/","c">>, <<"x","/","y">> }

\* the sequences of distinct names, at most n long
DistinctSeqs(S, n) ==
  { q \in SeqsUpTo(S, n) : \A i, j \in DOMAIN q : i # j => q[i] # q[j] }

\* variable number i of a collection with the given modes: a number in every
\* mode, or, for the name x/y, an alias no collection holds
TreeVariable(i, name, modes) ==
  Variable(<<"t">> \o NatToString(i), name, "FLOAT", {"GAP"},
           [m \in DOMAIN modes |->
              [modeId |-> modes[m].modeId,
               value |-> IF name = <<"x","/","y">> THEN Alias(UnknownId(m))
                         ELSE Num((10 * i + m) * Scale)]])

TreeInputs ==
  { [local |-> <<[name |-> sSpacing, libraryName |-> sAcme, modes |-> modes,
                  variables |-> [i \in DOMAIN names |-> TreeVariable(i, names[i], modes)]]>>,
     shared |-> <<>>] :
      modes \in TreeModes, names \in DistinctSeqs(TreeNames, MaxTreeVariables) }

InitTree == figmaData \in TreeInputs /\ RunStart /\ pcOther = "idle"

SpecTree == InitTree /\ [][Next]_vars

-----------------------------------------------------------------------------
(* Tree shape properties (SpecTree) *)

\* the proper, non-empty prefixes of a path
ProperPrefixes(path) == { SubSeq(path, 1, n) : n \in 1..(Len(path) - 1) }

\* below node, path runs through group nodes and ends in a token leaf
EndsInLeaf(node, path) ==
  /\ \A prefix \in ProperPrefixes(path) :
       /\ NodeAt(node, prefix).tok = NoTok
       /\ NodeAt(node, prefix).kids # <<>>
  /\ NodeAt(node, path).tok # NoTok
  /\ NodeAt(node, path).kids = <<>>

\* the entry of the collection that got its key at position i of history has
\* the shape collection -> mode -> groups -> token
EntryShaped(i) ==
  LET c == CollectionAt(history[i].at)
      entry == dtcgPayload[history[i].key]
  IN  /\ entry.tok = NoTok
      /\ \A m \in DOMAIN c.modes :
           c.modes[m].name # <<>> =>
             /\ sanitizeForDTCG(c.modes[m].name) \in DOMAIN entry.kids
             /\ entry.kids[sanitizeForDTCG(c.modes[m].name)].tok = NoTok
      /\ \A v \in DOMAIN c.variables :
           \A e \in DOMAIN c.variables[v].valuesByMode :
             EndsInLeaf(entry,
                        <<ModeNameOf(c, c.variables[v].valuesByMode[e].modeId)>>
                          \o VariablePathSegments(c.variables[v].name))

\* C13: in the returned tree every named mode of a processed collection has a
\* subtree under its sanitized name, no token lies above the mode level, and
\* the path segments of every variable are nested group nodes that end in a
\* token leaf, in every mode of the collection, with one mode or with several.
C13_TreeShape ==
  Done => \A i \in EntryEvents :
            history[i].key \in DOMAIN dtcgPayload /\ EntryShaped(i)

\* no name of the collection is a group of another name of the collection
PrefixFree(c) ==
  \A v, w \in DOMAIN c.variables :
    VariablePathSegments(c.variables[v].name)
      \notin ProperPrefixes(VariablePathSegments(c.variables[w].name))

\* C13 for collections in which no variable name is a group of another one
C13_PrefixFreeShape ==
  Done => \A i \in EntryEvents :
            PrefixFree(CollectionAt(history[i].at))
              => (history[i].key \in DOMAIN dtcgPayload /\ EntryShaped(i))

-----------------------------------------------------------------------------
(* Code generators: the text a generator returns is modelled by its parts,   *)
(* one per object key, each part being the string the code builds for it     *)

\* effectiveValue.slice(1, -1)
InnerPath(s) == SubSeq(s, 2, Len(s) - 1)

\* /^\d+$/.test(s)
IsAllDigits(s) == s # <<>> /\ \A i \in DOMAIN s : IsDigit(s[i])

\* String.prototype.lastIndexOf for a one-character needle, counted from 1; 0 when absent
LastIndexOf(s, c) ==
  IF \E i \in DOMAIN s : s[i] = c
    THEN CHOOSE i \in DOMAIN s : s[i] = c /\ \A j \in (i + 1)..Len(s) : s[j] # c
    ELSE 0

\* s.replace(/xy/g, by) for the two-character pattern xy
RECURSIVE ReplaceAll(_, _, _, _)
ReplaceAll(s, x, y, by) ==
  IF Len(s) < 2 THEN s
  ELSE IF s[1] = x /\ s[2] = y
    THEN by \o ReplaceAll(SubSeq(s, 3, Len(s)), x, y, by)
  ELSE <<s[1]>> \o ReplaceAll(Tail(s), x, y, by)

\* code.js:1379: .replace(/LB/g, '["').replace(/RB/g, '"]')
ReplacePlaceholders(s) ==
  ReplaceAll(ReplaceAll(s, "L", "B", <<"[", "\"">>), "R", "B", <<"\"", "]">>)

\* code.js:1447..1451, the context segment inserted twice
InjectContext_Twice(segments, contextSegment) ==
  IF contextSegment # <<>> /\ Len(segments) > 1
    THEN <<segments[1], contextSegment, contextSegment>> \o Tail(segments)
    ELSE segments

\* code.js:1447..1451 and 1628..1632: [segments[0], contextSegment, ...segments.slice(1)]
\* when there is a context segment and the path has more than one segment
InjectContext(segments, contextSegment) ==
  IF contextSegment # <<>> /\ Len(segments) > 1
    THEN <<segments[1], contextSegment>> \o Tail(segments)
    ELSE segments

\* code.js:1432..1468: the expression emitted for an alias string, before the
\* placeholders are replaced; pathContext holds the keys down to the token
JSAliasCode(effectiveValue, pathContext) ==
  LET segments == split(InnerPath(effectiveValue), ".")
      contextSegment == IF Len(pathContext) >= 2 THEN pathContext[2] ELSE <<>>
      finalSegments == InjectContext(segments, contextSegment)
      pathString == join(finalSegments, ".")
      lastSegment == finalSegments[Len(finalSegments)]
      lastDotIndex == LastIndexOf(pathString, ".")
  IN  IF IsAllDigits(lastSegment) /\ lastDotIndex # 0
        THEN SubSeq(pathString, 1, lastDotIndex - 1) \o <<"L", "B">> \o lastSegment \o <<"R", "B">>
        ELSE pathString

Quoted(s) == <<"'">> \o s \o <<"'">>

\* code.js:1428..1482: the code of a token node
JSTokenCode(tok, pathContext) ==
  IF IsReferenceString(tok.value) THEN JSAliasCode(tok.value.s, pathContext)
  ELSE IF tok.value.t = "num" THEN NumberToString(tok.value.n)
  ELSE IF tok.value.t = "str" THEN Quoted(tok.value.s)
  ELSE StringOf(tok.value)

\* code.js:1495: /^[a-zA-Z_$][a-zA-Z0-9_$]*$/.test(key) ? key : `'${key}'`
IsIdentifier(key) ==
  /\ key # <<>>
  /\ key[1] \in Range(LowerCaseLetters) \cup Range(UpperCaseLetters) \cup {"_", "$"}
  /\ \A i \in DOMAIN key :
       key[i] \in Range(LowerCaseLetters) \cup Range(UpperCaseLetters)
                    \cup Range(Digits) \cup {"_", "$"}

FormattedKey(key) == IF IsIdentifier(key) THEN key ELSE Quoted(key)

\* code.js:1390..1508: a token yields its code, an object one part per key
RECURSIVE generateJSCodeRecursive(_, _)
generateJSCodeRecursive(node, pathContext) ==
  IF node.tok # NoTok
    THEN [t |-> "code", s |-> JSTokenCode(node.tok, pathContext)]
  ELSE IF DOMAIN node.kids = {}
    THEN [t |-> "code", s |-> <<"{", "}">>]
  ELSE [t |-> "object",
        entries |-> [key \in DOMAIN node.kids |->
                       [formattedKey |-> FormattedKey(key),
                        valueCode |-> generateJSCodeRecursive(node.kids[key],
                                                              Append(pathContext, key))]]]

\* the global replacement of code.js:1379 reaches every part of the text
RECURSIVE ReplaceInParts(_)
ReplaceInParts(code) ==
  IF code.t = "code" THEN [code EXCEPT !.s = ReplacePlaceholders(code.s)]
  ELSE [code EXCEPT !.entries =
          [key \in DOMAIN code.entries |->
             [formattedKey |-> ReplacePlaceholders(code.entries[key].formattedKey),
              valueCode |-> ReplaceInParts(code.entries[key].valueCode)]]]

\* code.js:1370..1382
generateJSCodeFromPayload(payload) ==
  ReplaceInParts(generateJSCodeRecursive([tok |-> NoTok, kids |-> payload], <<>>))

-----------------------------------------------------------------------------
(* Property order of the tree's objects, as for...in and Object.keys see it:  *)
(* array indices in ascending order, then the other keys in insertion order   *)

IsArrayIndex(k) == IsAllDigits(k) /\ (Len(k) = 1 \/ k[1] # "0")

IsPrefixOf(p, q) == Len(p) <= Len(q) /\ SubSeq(q, 1, Len(p)) = p

FirstOf(S) == IF S = {} THEN 0 ELSE CHOOSE i \in S : \A j \in S : i <= j

\* the position of the entry event that created the object now under a collection key
CreatedAt(key) ==
  LET S == { i \in EntryEvents : history[i].key = key }
  IN  IF S = {} THEN 0 ELSE CHOOSE i \in S : \A j \in S : j <= i

\* the modes of the collection whose object is now under a collection key
ModesUnder(key) ==
  IF CreatedAt(key) = 0 THEN <<>> ELSE CollectionAt(history[CreatedAt(key)].at).modes

\* code.js:2006..2017: the mode keys a collection object is created with, by position
InitialModeRank(key, k) ==
  FirstOf({ j \in DOMAIN ModesUnder(key) :
              /\ ModesUnder(key)[j].name # <<>>
              /\ sanitizeForDTCG(ModesUnder(key)[j].name) = k })

\* when key k was inserted into the object at path at (collection key, mode, groups)
InsertedAt(at, k) ==
  IF at = <<>> THEN FirstOf({ i \in EntryEvents : history[i].key = k })
  ELSE IF Len(at) = 1 /\ InitialModeRank(at[1], k) # 0
    THEN InitialModeRank(at[1], k) - Len(ModesUnder(at[1])) - 1
  ELSE FirstOf({ i \in TokenEvents :
                   /\ i > CreatedAt(at[1])
                   /\ history[i].key = at[1]
                   /\ IsPrefixOf(Tail(at) \o <<k>>, <<history[i].mode>> \o history[i].path) })

\* key a of the object at path at comes no later than key b
ComesBefore(at, a, b) ==
  IF IsArrayIndex(a) /\ IsArrayIndex(b) THEN DigitsToNat(a) <= DigitsToNat(b)
  ELSE IF IsArrayIndex(a) THEN TRUE
  ELSE IF IsArrayIndex(b) THEN FALSE
  ELSE InsertedAt(at, a) <= InsertedAt(at, b)

RECURSIVE SortKeys(_, _)
SortKeys(S, at) ==
  IF S = {} THEN <<>>
  ELSE LET first == CHOOSE k \in S : \A o \in S : ComesBefore(at, k, o)
       IN  <<first>> \o SortKeys(S \ {first}, at)

\* the keys of the object at a path of the tree, in property order
KeysInOrder(node, at) == SortKeys(DOMAIN node.kids, at)

RECURSIVE Flatten(_)
Flatten(seqs) == IF seqs = <<>> THEN <<>> ELSE Head(seqs) \o Flatten(Tail(seqs))

-----------------------------------------------------------------------------
(* CSS generator *)

EndsWithPx(s) == Len(s) >= 2 /\ s[Len(s) - 1] = "p" /\ s[Len(s)] = "x"

VarOf(name) == <<"v","a","r","(","-","-">> \o name \o <<")">>

\* code.js:1619..1646, the collection key and the mode kept in the property name
resolveCSSAlias_FullPath(aliasString, currentModeName) ==
  VarOf(join(InjectContext(split(InnerPath(aliasString), "."), currentModeName), "-"))

\* code.js:1619..1646
resolveCSSAlias(aliasString, currentModeName) ==
  LET segments == split(InnerPath(aliasString), ".")
      finalSegments == InjectContext(segments, currentModeName)
  IN  IF Len(finalSegments) >= 3
        THEN VarOf(join(SubSeq(finalSegments, 3, Len(finalSegments)), "-"))
        ELSE VarOf(join(finalSegments, "-"))

\* code.js:1582..1594: the value of a declaration
CSSValueOf(tok, currentModeName) ==
  IF IsReferenceString(tok.value) THEN resolveCSSAlias(tok.value.s, currentModeName)
  ELSE LET cssValue == convertFigmaValueToDTCG(tok.value, tok.type, tok.type)
       IN  IF /\ cssValue.t = "str"
              /\ ~startsWith(cssValue.s, "#")
              /\ ~EndsWithPx(cssValue.s)
              /\ ~includes(cssValue.s, <<"v","a","r","(">>)
             THEN Quoted(cssValue.s)
             ELSE StringOf(cssValue)

\* code.js:1579, the property named from the own key alone
CSSVariableName_KeyOnly(currentRelativePath, key) == <<"-","-">> \o key

\* code.js:1579: `--${[...currentRelativePath, key].join('-')}`
CSSVariableName(currentRelativePath, key) ==
  <<"-","-">> \o join(Append(currentRelativePath, key), "-")

\* code.js:1566..1610: the declarations `${variableName}: ${cssValue};` of a
\* mode, in order; at is the place of dataNode in the tree
RECURSIVE generateScopedCSSVariables(_, _, _, _)
generateScopedCSSVariables(dataNode, currentRelativePath, currentModeName, at) ==
  LET keys == KeysInOrder(dataNode, at)
  IN  Flatten([i \in DOMAIN keys |->
        LET key == keys[i]
            value == dataNode.kids[key]
        IN  IF value.tok # NoTok
              THEN <<[variableName |-> CSSVariableName(currentRelativePath, key),
                      cssValue |-> CSSValueOf(value.tok, currentModeName)]>>
              ELSE generateScopedCSSVariables(value, Append(currentRelativePath, key),
                                              currentModeName, Append(at, key))])

\* code.js:1536: `.${sanitizedCollectionName}-${sanitizedModeName}`
CSSSelector(collectionName, modeName) ==
  <<".">> \o sanitizeForDTCG(collectionName) \o <<"-">> \o sanitizeForDTCG(modeName)

\* code.js:1541..1545: a rule is added only when its scope has variables
CSSRule(collectionName, modeName, variablesForScope) ==
  IF Len(variablesForScope) > 0
    THEN <<[selector |-> CSSSelector(collectionName, modeName),
            collectionName |-> collectionName, modeName |-> modeName,
            variables |-> variablesForScope]>>
    ELSE <<>>

\* code.js:1522..1547: the rules of one collection, mode by mode
CSSRulesOfCollection(collection, collectionName, modeNames) ==
  Flatten([m \in DOMAIN modeNames |->
             CSSRule(collectionName, modeNames[m],
                     generateScopedCSSVariables(collection.kids[modeNames[m]], <<>>,
                                                modeNames[m],
                                                <<collectionName, modeNames[m]>>))])

\* code.js:1514..1556: the rules `${selector} {...}` in order, each with the
\* collection and mode it was generated for
CSSRulesOfCollections(payload, collectionNames) ==
  Flatten([c \in DOMAIN collectionNames |->
             CSSRulesOfCollection(payload[collectionNames[c]], collectionNames[c],
                                  KeysInOrder(payload[collectionNames[c]],
                                              <<collectionNames[c]>>))])

generateCSSCodeFromPayload(payload) ==
  CSSRulesOfCollections(payload, KeysInOrder([tok |-> NoTok, kids |-> payload], <<>>))

-----------------------------------------------------------------------------
(* Tailwind generator *)

\* code.js:1669..1683
dtcgTypeToTailwindSection ==
  [type \in {"color", "dimension", "number", "fontFamily", "fontWeight", "fontStyle",
             "fontSize", "lineHeight", "letterSpacing", "borderRadius", "borderWidth",
             "boxShadow", "opacity"} |->
     CASE type = "color" -> "colors"
       [] type \in {"dimension", "number"} -> "spacing"
       [] OTHER -> type]

\* code.js:1729..1790: the tokens of a mode in the order the recursion meets
\* them, each with its sanitized relative path
RECURSIVE TailwindTokens(_, _, _)
TailwindTokens(currentNode, currentRelativePathSegments, at) ==
  LET keys == KeysInOrder(currentNode, at)
  IN  Flatten([i \in DOMAIN keys |->
        LET key == keys[i]
            tokenData == currentNode.kids[key]
            newRelativePathSegments ==
              Append(currentRelativePathSegments, sanitizeForDTCG(key))
        IN  IF tokenData.tok # NoTok
              THEN <<[segments |-> newRelativePathSegments, type |-> tokenData.tok.type]>>
              ELSE TailwindTokens(tokenData, newRelativePathSegments, Append(at, key))])

\* code.js:1737..1777: one token; extend[section][collection][relativeKey] is
\* the value of extend at <<section, collection, relativeKey>>
AddTailwindToken(st, sanitizedCollectionName, token) ==
  LET tailwindRelativeKey == join(token.segments, "-")
      uniqueKeyForDeduplication == <<sanitizedCollectionName, tailwindRelativeKey>>
      marked == [st EXCEPT !.processedKeys = @ \cup {uniqueKeyForDeduplication}]
  IN  IF uniqueKeyForDeduplication \in st.processedKeys THEN st
      ELSE IF token.type \notin DOMAIN dtcgTypeToTailwindSection THEN marked
      ELSE [marked EXCEPT !.extend =
              Put(@, <<dtcgTypeToTailwindSection[token.type], sanitizedCollectionName,
                       tailwindRelativeKey>>,
                  VarOf(tailwindRelativeKey))]

RECURSIVE AddTailwindTokens(_, _, _)
AddTailwindTokens(st, sanitizedCollectionName, tokens) ==
  IF tokens = <<>> THEN st
  ELSE AddTailwindTokens(AddTailwindToken(st, sanitizedCollectionName, Head(tokens)),
                         sanitizedCollectionName, Tail(tokens))

\* code.js:1653..1718: tailwindConfig.theme.extend
generateTailwindCodeFromPayload(payload) ==
  LET root == [tok |-> NoTok, kids |-> payload]
      collectionNames == KeysInOrder(root, <<>>)
      TokensOfCollection(collectionName) ==
        LET collection == payload[collectionName]
            modeNames == KeysInOrder(collection, <<collectionName>>)
        IN  Flatten([m \in DOMAIN modeNames |->
              TailwindTokens(collection.kids[modeNames[m]], <<>>,
                             <<collectionName, modeNames[m]>>)])
      RECURSIVE Collect(_, _)
      Collect(st, names) ==
        IF names = <<>> THEN st
        ELSE Collect(AddTailwindTokens(st, sanitizeForDTCG(Head(names)),
                                       TokensOfCollection(Head(names))),
                     Tail(names))
  IN  Collect([processedKeys |-> {}, extend |-> <<>>], collectionNames).extend

-----------------------------------------------------------------------------
(* SpecCode: a run over one local collection, then the code generators on    *)
(* the payload the run returned                                              *)

MaxCodeVariables == 3

sSlate2 == <<"s","l","a","t","e","/","2">>

sFill == <<"f","i","l","l">>

sADashB == <<"a","-","b">>

sASlashB == <<"a","/","b">>

sA == <<"a">>

sNote == <<"n","o","t","e">>

CodeNames == {sSlate2, sFill, sADashB, sASlashB, sA, sRef, sNote}

CodeId(name) == <<"v">> \o RemoveInvalidChars(name)

\* the variable of a name: slate/2, a/b and a are numbers, a-b is a colour,
\* note a string, fill an alias of slate/2 and ref an alias of fill
CodeVariable(name, modes) ==
  Variable(CodeId(name), name,
           CASE name = sADashB -> "COLOR" [] name = sNote -> "STRING" [] OTHER -> "FLOAT",
           IF name \in {sADashB, sNote} THEN {} ELSE {"GAP"},
           [m \in DOMAIN modes |->
              [modeId |-> modes[m].modeId,
               value |-> CASE name = sFill -> Alias(CodeId(sSlate2))
                           [] name = sRef -> Alias(CodeId(sFill))
                           [] name = sADashB -> Color(Scale, 0, 0, Scale)
                           [] name = sNote -> Str(<<"h","i">>)
                           [] OTHER -> Num((Len(name) + 10 * m) * Scale)]])

CodeInputs ==
  { [local |-> <<[name |-> sSpacing, libraryName |-> sAcme, modes |-> modes,
                  variables |-> [i \in DOMAIN names |-> CodeVariable(names[i], modes)]]>>,
     shared |-> <<>>] :
      modes \in TreeModes, names \in DistinctSeqs(CodeNames, MaxCodeVariables) }

InitCode == figmaData \in CodeInputs /\ RunStart /\ pcOther = "idle"

\* code.js:778..800: 'request-js-code' without a payload of its own, after a run
RequestJSCode ==
  /\ pc = "done"
  /\ callArgs.fn # "generateJSCodeFromPayload"
  /\ callArgs' = [fn |-> "generateJSCodeFromPayload"]
  /\ callResult' = [t |-> "js", code |-> generateJSCodeFromPayload(dtcgPayload)]
  /\ UNCHANGED <<pipelineVars, useRemUnits, remBaseFontSize>>

\* code.js:802..824: 'request-css-code'
RequestCSSCode ==
  /\ pc = "done"
  /\ callArgs.fn # "generateCSSCodeFromPayload"
  /\ callArgs' = [fn |-> "generateCSSCodeFromPayload"]
  /\ callResult' = [t |-> "css", code |-> generateCSSCodeFromPayload(dtcgPayload)]
  /\ UNCHANGED <<pipelineVars, useRemUnits, remBaseFontSize>>

\* code.js:826..848: 'request-tailwind-code'
RequestTailwindCode ==
  /\ pc = "done"
  /\ callArgs.fn # "generateTailwindCodeFromPayload"
  /\ callArgs' = [fn |-> "generateTailwindCodeFromPayload"]
  /\ callResult' = [t |-> "tailwind", code |-> generateTailwindCodeFromPayload(dtcgPayload)]
  /\ UNCHANGED <<pipelineVars, useRemUnits, remBaseFontSize>>

NextCode ==
  \/ StartRun
  \/ NextCollection
  \/ ProcessValue
  \/ LookupReturns
  \/ FinishRun
  \/ RequestJSCode
  \/ RequestCSSCode
  \/ RequestTailwindCode

SpecCode == InitCode /\ [][NextCode]_vars

-----------------------------------------------------------------------------
(* Generator properties (SpecCode) *)

\* the tokens a generator reaches below a node: those with only groups above them
RECURSIVE ReachedTokens(_, _)
ReachedTokens(node, prefix) ==
  UNION { IF node.kids[k].tok # NoTok
            THEN {<<Append(prefix, k), node.kids[k].tok>>}
            ELSE ReachedTokens(node.kids[k], Append(prefix, k)) : k \in DOMAIN node.kids }

\* the part of the generated JavaScript at a path of keys
RECURSIVE JSCodeAt(_, _)
JSCodeAt(code, path) ==
  IF path = <<>> THEN code
  ELSE JSCodeAt(code.entries[Head(path)].valueCode, Tail(path))

\* s0.<mode>.s1...sn, the last segment in brackets when it is all digits
InjectedExpression(segments, mode) ==
  LET full == <<segments[1], mode>> \o Tail(segments)
      n == Len(full)
  IN  IF IsAllDigits(full[n])
        THEN join(SubSeq(full, 1, n - 1), ".") \o <<"[", "\"">> \o full[n] \o <<"\"", "]">>
        ELSE join(full, ".")

\* the alias tokens of the tree that name a path of two or more segments
DottedAliasTokens ==
  { lf \in ReachedTokens([tok |-> NoTok, kids |-> dtcgPayload], <<>>) :
      /\ IsReferenceString(lf[2].value)
      /\ Len(split(InnerPath(lf[2].value.s), ".")) > 1 }

\* C14: the JavaScript generator emits every alias token "{s0.s1...sn}" as the
\* unquoted expression s0.<mode>.s1...sn, <mode> being the second key of the
\* token's own place in the tree, and writes an all-digit last segment in
\* bracket-index form
C14_JSAliasEmission ==
  callResult.t = "js" =>
    \A lf \in DottedAliasTokens :
       JSCodeAt(callResult.code, lf[1]) =
         [t |-> "code",
          s |-> InjectedExpression(split(InnerPath(lf[2].value.s), "."), lf[1][2])]

\* JavaScript was generated for a tree with an alias ending in digits and one ending in a name
C14_Witness ==
  /\ callResult.t = "js"
  /\ \E lf \in DottedAliasTokens :
       /\ JSCodeAt(callResult.code, lf[1]).s =
            <<"s","p","a","c","i","n","g",".","d","a","r","k",".","s","l","a","t","e",
              "[","\"","2","\"","]">>
  /\ \E lf \in DottedAliasTokens :
       /\ JSCodeAt(callResult.code, lf[1]).s =
            <<"s","p","a","c","i","n","g",".","l","i","g","h","t",".","f","i","l","l">>

\* the alias events of resolved aliases whose token a generator reaches
ResolvedAliasTokens ==
  { i \in AliasEvents :
      /\ history[i].found
      /\ (i + 1) \in TokenEvents
      /\ history[i + 1].key \in DOMAIN dtcgPayload
      /\ <<(<<history[i + 1].key, history[i + 1].mode>> \o history[i + 1].path),
           history[i + 1].tok>>
           \in ReachedTokens([tok |-> NoTok, kids |-> dtcgPayload], <<>>) }

\* the index entry of the variable an alias event resolved to
TargetInfo(i) ==
  LET index == PathIndexOf(figmaData)
  IN  IF history[i].id \in DOMAIN index THEN index[history[i].id]
      ELSE index[FigmaLocalId(history[i].id)]

\* the canonical path: the collection key followed by the sanitized name segments
CanonicalPath(i) == <<TargetInfo(i).collectionKey>> \o TargetInfo(i).path

\* the rules generated for a collection key and a mode key
CSSRulesFor(code, collectionName, modeName) ==
  { r \in DOMAIN code : code[r].collectionName = collectionName /\ code[r].modeName = modeName }

\* the declarations of the rules generated for a collection key and a mode key
CSSDeclarations(code, collectionName, modeName) ==
  UNION { Range(code[r].variables) : r \in CSSRulesFor(code, collectionName, modeName) }

\* the values declared for the property named from a path below the mode
CSSValuesFor(code, collectionName, modeName, path) ==
  { d.cssValue :
      d \in { e \in CSSDeclarations(code, collectionName, modeName) :
                e.variableName = <<"-","-">> \o join(path, "-") } }

\* C15 as stated: every reference emitted for a resolved alias, in the tree,
\* in JavaScript and in CSS, spells the whole canonical path of its target
\* (collection key, then name segments), each segment once
C15_CanonicalPathInEveryReference ==
  \A i \in ResolvedAliasTokens :
     LET tk == history[i + 1]
     IN  /\ tk.tok.value = Str(<<"{">> \o join(CanonicalPath(i), ".") \o <<"}">>)
         /\ callResult.t = "js" =>
              JSCodeAt(callResult.code, <<tk.key, tk.mode>> \o tk.path).s =
                InjectedExpression(CanonicalPath(i), tk.mode)
         /\ callResult.t = "css" =>
              CSSValuesFor(callResult.code, tk.key, tk.mode, tk.path)
                \subseteq { VarOf(join(CanonicalPath(i), "-")),
                            VarOf(join(<<TargetInfo(i).collectionKey, tk.mode>>
                                         \o TargetInfo(i).path, "-")) }

\* C15: for a resolved alias the tree holds "{key.seg1...segN}" of the
\* target's index entry, exactly; the JavaScript expression spells key, the
\* inserted mode key and the name segments, each once; the CSS reference
\* spells var(--seg1-...-segN), the name segments once and no collection key
C15_ReferenceEncodings ==
  \A i \in ResolvedAliasTokens :
     LET tk == history[i + 1]
     IN  /\ tk.tok.value = Str(<<"{">> \o join(CanonicalPath(i), ".") \o <<"}">>)
         /\ callResult.t = "js" =>
              JSCodeAt(callResult.code, <<tk.key, tk.mode>> \o tk.path).s =
                InjectedExpression(CanonicalPath(i), tk.mode)
         /\ callResult.t = "css" =>
              CSSValuesFor(callResult.code, tk.key, tk.mode, tk.path)
                = { VarOf(join(TargetInfo(i).path, "-")) }

\* CSS was generated for a tree in which fill is a resolved alias of slate/2
C15_Witness ==
  /\ callResult.t = "css"
  /\ \E i \in ResolvedAliasTokens :
       /\ CanonicalPath(i) = <<<<"s","p","a","c","i","n","g">>, <<"s","l","a","t","e">>, <<"2">>>>
       /\ CSSValuesFor(callResult.code, history[i + 1].key, history[i + 1].mode,
                       history[i + 1].path)
            = { <<"v","a","r","(","-","-","s","l","a","t","e","-","2",")">> }

\* the (collection key, mode key) pairs of the tree
TreePairs ==
  UNION { { <<c, m>> : m \in DOMAIN dtcgPayload[c].kids } : c \in DOMAIN dtcgPayload }

\* "--" followed by the group path and the own key of a token, joined with "-"
PropertyNameOf(path) == <<"-","-">> \o join(path, "-")

\* the declarations of a rule correspond one to one to the given tokens, by name
OnePropertyPerToken(rule, tokens) ==
  /\ Len(rule.variables) = Cardinality(tokens)
  /\ \A lf \in tokens :
       Cardinality({ d \in DOMAIN rule.variables :
                       rule.variables[d].variableName = PropertyNameOf(lf[1]) })
         = Cardinality({ x \in tokens : PropertyNameOf(x[1]) = PropertyNameOf(lf[1]) })

\* C16 as stated: every (collection, mode) pair of the tree has exactly one
\* rule, with the selector ".{collection}-{mode}" and one custom property per
\* token of the mode
C16_OneRulePerPair ==
  callResult.t = "css" =>
    \A p \in TreePairs :
       LET rules == CSSRulesFor(callResult.code, p[1], p[2])
       IN  /\ Cardinality(rules) = 1
           /\ \A r \in rules :
                /\ callResult.code[r].selector = <<".">> \o p[1] \o <<"-">> \o p[2]
                /\ OnePropertyPerToken(callResult.code[r],
                                       Leaves(dtcgPayload[p[1]].kids[p[2]], <<>>))

\* C16: a (collection, mode) pair has exactly one rule when the generator
\* reaches a token in the mode and no rule otherwise; the rule's selector is
\* ".{collection}-{mode}" and it declares exactly one custom property per
\* token reached through groups, named "--" followed by the token's path
\* below the mode joined with "-"; there are no other rules
C16_OneRulePerPopulatedPair ==
  callResult.t = "css" =>
    /\ \A p \in TreePairs :
         LET rules == CSSRulesFor(callResult.code, p[1], p[2])
             reached == ReachedTokens(dtcgPayload[p[1]].kids[p[2]], <<>>)
         IN  /\ Cardinality(rules) = IF reached = {} THEN 0 ELSE 1
             /\ \A r \in rules :
                  /\ callResult.code[r].selector = <<".">> \o p[1] \o <<"-">> \o p[2]
                  /\ OnePropertyPerToken(callResult.code[r], reached)
    /\ \A r \in DOMAIN callResult.code :
         <<callResult.code[r].collectionName, callResult.code[r].modeName>> \in TreePairs

\* CSS was generated for a tree with two modes, each with a token below a group
C16_Witness ==
  /\ callResult.t = "css"
  /\ Len(callResult.code) = 2
  /\ callResult.code[1].selector = <<".","s","p","a","c","i","n","g","-","l","i","g","h","t">>
  /\ callResult.code[2].selector = <<".","s","p","a","c","i","n","g","-","d","a","r","k">>
  /\ \E d \in DOMAIN callResult.code[2].variables :
       callResult.code[2].variables[d].variableName = <<"-","-","s","l","a","t","e","-","2">>
  /\ Len(callResult.code[2].variables) = MaxCodeVariables

\* the key of a token in the Tailwind configuration: its path below the mode joined with "-"
RelativeKeyOf(path) == join([i \in DOMAIN path |-> sanitizeForDTCG(path[i])], "-")

\* C17: after the Tailwind generator ran, every token it reaches whose type
\* is in the type-to-section map has the entry
\* {section}.{collection}.{relativeKey} = "var(--relativeKey)", and the
\* configuration holds no other entry (so a key that recurs in several modes
\* has one entry)
C17_EveryMappedTokenHasEntry ==
  callResult.t = "tailwind" =>
    LET extend == callResult.code
        expected ==
          { <<dtcgTypeToTailwindSection[lf[2].type], lf[1][1],
              RelativeKeyOf(SubSeq(lf[1], 3, Len(lf[1])))>> :
              lf \in { x \in ReachedTokens([tok |-> NoTok, kids |-> dtcgPayload], <<>>) :
                         x[2].type \in DOMAIN dtcgTypeToTailwindSection } }
    IN  /\ \A e \in expected :
             e \in DOMAIN extend /\ extend[e] = VarOf(e[3])
        /\ DOMAIN extend \subseteq expected

\* no two tokens of one collection at different paths below the mode have the same relative key
RelativeKeysDiffer ==
  \A x, y \in ReachedTokens([tok |-> NoTok, kids |-> dtcgPayload], <<>>) :
     (/\ x[1][1] = y[1][1]
      /\ RelativeKeyOf(SubSeq(x[1], 3, Len(x[1]))) = RelativeKeyOf(SubSeq(y[1], 3, Len(y[1]))))
       => SubSeq(x[1], 3, Len(x[1])) = SubSeq(y[1], 3, Len(y[1]))

\* the entries are as C17 states them whenever the relative keys differ
C17_WhenRelativeKeysDiffer == RelativeKeysDiffer => C17_EveryMappedTokenHasEntry

-----------------------------------------------------------------------------
(* Run exclusion (SpecOverlap) *)

\* the run of createSimplifiedDTCGPayload has started and has not returned
RunActive == pc \in {"start", "collection", "variable", "lookup", "finish"}

\* the run started by a later UI message has reset the state and has not returned
OtherRunActive == pcOther \in {"fetch", "build"}

\* C18: at any moment at most one pipeline run is active, whatever UI
\* messages arrive while a run is under way, so the path index and the
\* unresolved set are never written by two runs that overlap
C18_OneRunAtATime == ~(RunActive /\ OtherRunActive)

-----------------------------------------------------------------------------
(* Fetch stage: fetchAndLogAllVariables, fetchLocalCollections and           *)
(* fetchSharedCollections, one action per answer of the Figma API.  The      *)
(* document says what each call settles with; a field the code leaves out    *)
(* of an object (valuesByMode of a variable stored after a failed detail     *)
(* retrieval) is empty in the model                                          *)

\* code.js:167..170, the local collections of the earlier run kept
ClearedPayload_LocalKept == [local |-> allFetchedVariablesPayload.local, shared |-> <<>>]

\* code.js:167..170: allFetchedVariablesPayload = { local: [], shared: [] }
ClearedPayload == [local |-> <<>>, shared |-> <<>>]

\* code.js:264..268
EmptyErrorLog == [importErrors |-> <<>>, detailErrors |-> <<>>, collectionErrors |-> <<>>]

\* code.js:754..757 and 1059..1075, 1299..1302, 165..185, 192: a handler calls
\* fetchAndLogAllVariables, which resets the plugin state and asks for the
\* local collections
BeginFetch ==
  /\ fetching.pc = "idle"
  /\ Len(returned) < 2
  /\ allFetchedVariablesPayload' = ClearedPayload
  /\ importedLibraryVariableIds' = {}
  /\ variableKeyToIdMap' = <<>>
  /\ variableIdToKeyMap' = <<>>
  /\ variableIdToPathMap' = <<>>
  /\ unresolvedAliaseIdsSuspectedMissingSource' = {}
  /\ fetching' = [pc |-> "collections"]
  /\ UNCHANGED <<figmaData, useRemUnits, remBaseFontSize, processedCollectionSignatures,
                 usedCollectionNames, dtcgPayload, pc, cur, uiMessages, history,
                 callArgs, callResult, pcOther, document, console, returned>>

\* code.js:200..210: localCollectionData before its variables are fetched
LocalCollectionData(collection) ==
  [name |-> collection.name, libraryName |-> document.name, modes |-> collection.modes,
   variables |-> <<>>]

\* the fetch after the local collection ci: the next collection, or the libraries
AfterLocalCollection(ci) ==
  IF ci + 1 > Len(document.local) THEN [pc |-> "libraries"]
  ELSE [pc |-> "local", ci |-> ci + 1, vi |-> 1,
        localCollectionData |-> LocalCollectionData(document.local[ci + 1])]

\* code.js:192..197: getLocalVariableCollectionsAsync settles
LocalCollectionsReturn ==
  /\ fetching.pc = "collections"
  /\ fetching' = AfterLocalCollection(0)
  /\ UNCHANGED <<figmaData, useRemUnits, remBaseFontSize, variableIdToPathMap,
                 unresolvedAliaseIdsSuspectedMissingSource, processedCollectionSignatures,
                 usedCollectionNames, dtcgPayload, pc, cur, uiMessages, history,
                 callArgs, callResult, pcOther, document, allFetchedVariablesPayload,
                 importedLibraryVariableIds, variableKeyToIdMap, variableIdToKeyMap,
                 console, returned>>

\* code.js:213..235: getVariableByIdAsync settles for one variable id of a
\* local collection, or the collection has no further id and is pushed
FetchLocalStep ==
  /\ fetching.pc = "local"
  /\ LET collection == document.local[fetching.ci]
     IN  IF fetching.vi <= Len(collection.variables)
           THEN LET item == collection.variables[fetching.vi]
                IN  /\ fetching' =
                         [fetching EXCEPT
                            !.vi = @ + 1,
                            !.localCollectionData.variables =
                               IF item.fetch = "ok"
                                 THEN Append(@, [item.variable EXCEPT !.remote = FALSE])
                                 ELSE @]
                    /\ console' =
                         IF item.fetch = "throws"
                           THEN Append(console, [warn |-> "Failed to fetch local variable",
                                                 id |-> item.variable.id])
                           ELSE console
                    /\ UNCHANGED allFetchedVariablesPayload
           ELSE /\ allFetchedVariablesPayload' =
                     [allFetchedVariablesPayload EXCEPT
                        !.local = Append(@, fetching.localCollectionData)]
                /\ fetching' = AfterLocalCollection(fetching.ci)
                /\ UNCHANGED console
  /\ UNCHANGED <<figmaData, useRemUnits, remBaseFontSize, variableIdToPathMap,
                 unresolvedAliaseIdsSuspectedMissingSource, processedCollectionSignatures,
                 usedCollectionNames, dtcgPayload, pc, cur, uiMessages, history,
                 callArgs, callResult, pcOther, document,
                 importedLibraryVariableIds, variableKeyToIdMap, variableIdToKeyMap,
                 returned>>

\* code.js:261..268: getAvailableLibraryVariableCollectionsAsync settles
LibraryCollectionsReturn ==
  /\ fetching.pc = "libraries"
  /\ fetching' = [pc |-> "shared", ci |-> 1, vi |-> 0, errorLog |-> EmptyErrorLog,
                  hasCollectionModesInfo |-> FALSE]
  /\ UNCHANGED <<figmaData, useRemUnits, remBaseFontSize, variableIdToPathMap,
                 unresolvedAliaseIdsSuspectedMissingSource, processedCollectionSignatures,
                 usedCollectionNames, dtcgPayload, pc, cur, uiMessages, history,
                 callArgs, callResult, pcOther, document, allFetchedVariablesPayload,
                 importedLibraryVariableIds, variableKeyToIdMap, variableIdToKeyMap,
                 console, returned>>

\* code.js:281..289: sharedCollectionData as it is pushed
SharedCollectionData(libraryCollection) ==
  [key |-> libraryCollection.key, name |-> libraryCollection.name,
   libraryName |-> libraryCollection.libraryName, modes |-> <<>>, variables |-> <<>>]

\* code.js:359..370: the variable stored after its detail retrieval
DetailedVariable(libraryCollection, libraryVariable) ==
  [libraryVariable.variable EXCEPT !.remote = TRUE, !.originalKey = libraryVariable.key]

\* code.js:389..399: what is stored when the detail retrieval fails
BasicVariable(libraryCollection, libraryVariable) ==
  [id |-> libraryVariable.variable.id,
   name |-> IF libraryVariable.name = <<>> THEN <<"U","n","k","n","o","w","n">>
            ELSE libraryVariable.name,
   resolvedType |-> "", scopes |-> {}, valuesByMode |-> <<>>,
   remote |-> TRUE, originalKey |-> libraryVariable.key, error |-> "detail-retrieval"]

\* code.js:436..439, the error log never stored
WithErrorLog_Dropped(payload, errorLog) == payload

\* code.js:436..439: the error log is stored when it has an entry
WithErrorLog(payload, errorLog) ==
  IF errorLog # EmptyErrorLog
    THEN [local |-> payload.local, shared |-> payload.shared, errorLog |-> errorLog]
    ELSE payload

\* code.js:271..441 and 1311..1324: one answer of the API inside
\* fetchSharedCollections: the variables of a library collection, or the
\* import and detail retrieval of one of them; after the last collection the
\* error log is stored and createSimplifiedDTCGPayload is called
FetchSharedStep ==
  /\ fetching.pc = "shared"
  /\ IF fetching.ci > Len(document.library)
       THEN /\ allFetchedVariablesPayload' =
                 WithErrorLog(allFetchedVariablesPayload, fetching.errorLog)
            /\ fetching' = [pc |-> "build"]
            /\ figmaData' = [local |-> allFetchedVariablesPayload.local,
                             shared |-> allFetchedVariablesPayload.shared]
            /\ pc' = "start"
            /\ UNCHANGED <<importedLibraryVariableIds, variableKeyToIdMap,
                           variableIdToKeyMap>>
     ELSE LET libraryCollection == document.library[fetching.ci]
          IN  /\ UNCHANGED <<figmaData, pc>>
              /\ IF fetching.vi = 0
                   THEN /\ allFetchedVariablesPayload' =
                             [allFetchedVariablesPayload EXCEPT
                                !.shared = Append(@, SharedCollectionData(libraryCollection))]
                        /\ fetching' =
                             IF libraryCollection.listing = "throws"
                               THEN [fetching EXCEPT
                                       !.ci = @ + 1,
                                       !.errorLog.collectionErrors =
                                          Append(@, [collectionKey |-> libraryCollection.key,
                                                     errorPhase |-> "collection-variables-fetch"])]
                               ELSE [fetching EXCEPT !.vi = 1, !.hasCollectionModesInfo = FALSE]
                        /\ UNCHANGED <<importedLibraryVariableIds, variableKeyToIdMap,
                                       variableIdToKeyMap>>
                 ELSE IF fetching.vi > Len(libraryCollection.variables)
                   THEN /\ fetching' = [fetching EXCEPT !.ci = @ + 1, !.vi = 0]
                        /\ UNCHANGED <<allFetchedVariablesPayload, importedLibraryVariableIds,
                                       variableKeyToIdMap, variableIdToKeyMap>>
                 ELSE LET libraryVariable == libraryCollection.variables[fetching.vi]
                          importedId == libraryVariable.variable.id
                          si == Len(allFetchedVariablesPayload.shared)
                      IN  IF libraryVariable.import = "throws"
                            THEN /\ fetching' =
                                      [fetching EXCEPT
                                         !.vi = @ + 1,
                                         !.errorLog.importErrors =
                                            Append(@, [variableKey |-> libraryVariable.key,
                                                       errorPhase |-> "import"])]
                                 /\ UNCHANGED <<allFetchedVariablesPayload,
                                                importedLibraryVariableIds,
                                                variableKeyToIdMap, variableIdToKeyMap>>
                            ELSE /\ variableKeyToIdMap' =
                                      Put(variableKeyToIdMap, libraryVariable.key, importedId)
                                 /\ variableIdToKeyMap' =
                                      Put(variableIdToKeyMap, importedId, libraryVariable.key)
                                 /\ importedLibraryVariableIds' =
                                      importedLibraryVariableIds \cup {importedId}
                                 /\ allFetchedVariablesPayload' =
                                      [allFetchedVariablesPayload EXCEPT
                                         !.shared[si].modes =
                                            IF fetching.hasCollectionModesInfo THEN @
                                            ELSE libraryCollection.modes,
                                         !.shared[si].variables =
                                            Append(@,
                                              IF libraryVariable.detail = "ok"
                                                THEN DetailedVariable(libraryCollection,
                                                                      libraryVariable)
                                                ELSE BasicVariable(libraryCollection,
                                                                   libraryVariable))]
                                 /\ fetching' =
                                      [fetching EXCEPT
                                         !.vi = @ + 1,
                                         !.hasCollectionModesInfo = TRUE,
                                         !.errorLog.detailErrors =
                                            IF libraryVariable.detail = "ok" THEN @
                                            ELSE Append(@, [variableKey |-> libraryVariable.key,
                                                            importedId |-> importedId,
                                                            errorPhase |-> "detail-retrieval"])]
  /\ UNCHANGED <<useRemUnits, remBaseFontSize, variableIdToPathMap,
                 unresolvedAliaseIdsSuspectedMissingSource, processedCollectionSignatures,
                 usedCollectionNames, dtcgPayload, cur, uiMessages, history,
                 callArgs, callResult, pcOther, document, console, returned>>

\* code.js:1326..1332 and 757..758: fetchAndLogAllVariables returns raw and
\* dtcg, and its caller calls createSimplifiedDTCGPayload(data.raw)
FetchReturns ==
  /\ fetching.pc = "build"
  /\ pc = "done"
  /\ fetching' = [pc |-> "rebuild"]
  /\ figmaData' = [local |-> allFetchedVariablesPayload.local,
                   shared |-> allFetchedVariablesPayload.shared]
  /\ pc' = "start"
  /\ UNCHANGED <<useRemUnits, remBaseFontSize, variableIdToPathMap,
                 unresolvedAliaseIdsSuspectedMissingSource, processedCollectionSignatures,
                 usedCollectionNames, dtcgPayload, cur, uiMessages, history,
                 callArgs, callResult, pcOther, document, allFetchedVariablesPayload,
                 importedLibraryVariableIds, variableKeyToIdMap, variableIdToKeyMap,
                 console, returned>>

\* code.js:759..766 without the postMessage: the run ends and nothing is posted
HandlerPosts_Silent ==
  /\ fetching.pc = "rebuild"
  /\ pc = "done"
  /\ fetching' = [pc |-> "idle"]
  /\ returned' = Append(returned,
                   [raw |-> allFetchedVariablesPayload, dtcg |-> dtcgPayload,
                    index |-> variableIdToPathMap,
                    unresolved |-> unresolvedAliaseIdsSuspectedMissingSource])
  /\ UNCHANGED <<figmaData, useRemUnits, remBaseFontSize, variableIdToPathMap,
                 unresolvedAliaseIdsSuspectedMissingSource, processedCollectionSignatures,
                 usedCollectionNames, dtcgPayload, pc, cur, uiMessages, history,
                 callArgs, callResult, pcOther, document, allFetchedVariablesPayload,
                 importedLibraryVariableIds, variableKeyToIdMap, variableIdToKeyMap,
                 console>>

\* code.js:759..766: the caller keeps the payloads and posts the tree
HandlerPosts ==
  /\ fetching.pc = "rebuild"
  /\ pc = "done"
  /\ fetching' = [pc |-> "idle"]
  /\ uiMessages' = Append(uiMessages, [type |-> "dtcgPayload"])
  /\ returned' = Append(returned,
                   [raw |-> allFetchedVariablesPayload, dtcg |-> dtcgPayload,
                    index |-> variableIdToPathMap,
                    unresolved |-> unresolvedAliaseIdsSuspectedMissingSource])
  /\ UNCHANGED <<figmaData, useRemUnits, remBaseFontSize, variableIdToPathMap,
                 unresolvedAliaseIdsSuspectedMissingSource, processedCollectionSignatures,
                 usedCollectionNames, dtcgPayload, pc, cur, history,
                 callArgs, callResult, pcOther, document, allFetchedVariablesPayload,
                 importedLibraryVariableIds, variableKeyToIdMap, variableIdToKeyMap,
                 console>>

-----------------------------------------------------------------------------
(* SpecFetch: two successive runs over one document with a local and a       *)
(* library collection, in which any call for a single variable may fail      *)

MaxFetchLocal == 1

MaxFetchShared == 2

sTokens == <<"T","o","k","e","n","s">>

\* the i-th variable of the local collection: the first aliases the first
\* library variable by its imported id, the others are numbers
LocalDocumentVariable(i) ==
  [id |-> <<"l", Digits[i + 1]>>,
   name |-> IF i = 1 THEN sRef ELSE <<"g", Digits[i + 1]>>,
   resolvedType |-> "FLOAT", scopes |-> {"GAP"},
   valuesByMode |-> <<[modeId |-> "m1",
                       value |-> IF i = 1 THEN Alias(<<"s", "1">>) ELSE Num(i * Scale)]>>,
   remote |-> FALSE]

\* the k-th variable of the library collection as it is after its import
LibraryDocumentVariable(k) ==
  [id |-> <<"s", Digits[k + 1]>>, name |-> <<"p", Digits[k + 1]>>,
   resolvedType |-> "FLOAT", scopes |-> {"GAP"},
   valuesByMode |-> <<[modeId |-> "m1", value |-> Num((10 + k) * Scale)]>>,
   remote |-> TRUE, originalKey |-> <<"k", Digits[k + 1]>>]

\* the first library variable as getVariableByIdAsync hands it over
ImportedDocumentVariable ==
  [id |-> LibraryDocumentVariable(1).id, name |-> LibraryDocumentVariable(1).name,
   resolvedType |-> "FLOAT", scopes |-> {"GAP"},
   valuesByMode |-> LibraryDocumentVariable(1).valuesByMode, remote |-> TRUE]

\* a variable id of the local collection: the id of a variable of the document
\* whose retrieval succeeds, fails or finds nothing, or the id of the first
\* library variable
LocalDocuments ==
  { <<[name |-> sSpacing, modes |-> BaseModes,
       variables |-> [i \in DOMAIN f |->
                        IF f[i] = "imported"
                          THEN [variable |-> ImportedDocumentVariable, fetch |-> "ok"]
                          ELSE [variable |-> LocalDocumentVariable(i), fetch |-> f[i]]]]>> :
      f \in SeqsUpTo({"ok", "throws", "null", "imported"}, MaxFetchLocal) }

LibraryDocuments ==
  { <<[key |-> <<"c", "1">>, name |-> sTokens, libraryName |-> sDesignSystem,
       modes |-> BaseModes, listing |-> "throws", variables |-> <<>>]>> }
  \cup
  { <<[key |-> <<"c", "1">>, name |-> sTokens, libraryName |-> sDesignSystem,
       modes |-> BaseModes, listing |-> "ok",
       variables |-> [k \in DOMAIN g |->
                        [key |-> <<"k", Digits[k + 1]>>, name |-> <<"p", Digits[k + 1]>>,
                         variable |-> LibraryDocumentVariable(k),
                         import |-> g[k][1], detail |-> g[k][2]]]]>> :
      g \in SeqsUpTo({<<"ok", "ok">>, <<"throws", "ok">>, <<"ok", "throws">>},
                     MaxFetchShared) }

FetchDocuments ==
  { [name |-> sAcme, local |-> l, library |-> s] :
      l \in LocalDocuments, s \in LibraryDocuments }

InitFetch ==
  /\ document \in FetchDocuments
  /\ allFetchedVariablesPayload = [local |-> <<>>, shared |-> <<>>]
  /\ importedLibraryVariableIds = {}
  /\ variableKeyToIdMap = <<>>
  /\ variableIdToKeyMap = <<>>
  /\ console = <<>>
  /\ fetching = [pc |-> "idle"]
  /\ returned = <<>>
  /\ figmaData = [local |-> <<>>, shared |-> <<>>]
  /\ useRemUnits = FALSE
  /\ remBaseFontSize = DefaultRemBaseFontSize
  /\ variableIdToPathMap = <<>>
  /\ unresolvedAliaseIdsSuspectedMissingSource = {}
  /\ processedCollectionSignatures = {}
  /\ usedCollectionNames = <<>>
  /\ dtcgPayload = <<>>
  /\ pc = "idle"
  /\ cur = [list |-> "none"]
  /\ uiMessages = <<>>
  /\ history = <<>>
  /\ callArgs = NoCall
  /\ callResult = NoResult
  /\ pcOther = "idle"

NextFetch ==
  \/ BeginFetch
  \/ LocalCollectionsReturn
  \/ FetchLocalStep
  \/ LibraryCollectionsReturn
  \/ FetchSharedStep
  \/ StartRun
  \/ NextCollection
  \/ ProcessValue
  \/ LookupReturns
  \/ FinishRun
  \/ FetchReturns
  \/ HandlerPosts

SpecFetch == InitFetch /\ [][NextFetch]_vars

-----------------------------------------------------------------------------
(* Run properties (SpecFetch) *)

C19_WitnessReset ==
  /\ fetching.pc = "collections"
  /\ Len(returned) = 1
  /\ returned[1].raw.local # <<>>
  /\ returned[1].raw.shared # <<>>
  /\ returned[1].index # <<>>
  /\ returned[1].unresolved # {}

RECURSIVE FetchedLocal(_)
FetchedLocal(items) ==
  IF items = <<>> THEN <<>>
  ELSE (IF Head(items).fetch = "ok"
          THEN <<[Head(items).variable EXCEPT !.remote = FALSE]>> ELSE <<>>)
         \o FetchedLocal(Tail(items))

\* the variables of a library collection whose import succeeds
RECURSIVE Imported(_)
Imported(items) ==
  IF items = <<>> THEN <<>>
  ELSE (IF Head(items).import = "ok" THEN <<Head(items)>> ELSE <<>>) \o Imported(Tail(items))

\* the keys of the library variables with a given import and detail outcome
RECURSIVE KeysWith(_, _, _)
KeysWith(items, import, detail) ==
  IF items = <<>> THEN <<>>
  ELSE (IF Head(items).import = import /\ Head(items).detail = detail
          THEN <<Head(items).key>> ELSE <<>>) \o KeysWith(Tail(items), import, detail)

\* the ids of the local variables whose fetch throws
RECURSIVE ThrownLocal(_)
ThrownLocal(items) ==
  IF items = <<>> THEN <<>>
  ELSE (IF Head(items).fetch = "throws" THEN <<Head(items).variable.id>> ELSE <<>>)
         \o ThrownLocal(Tail(items))

\* every collection of the document is in the fetched payload, in order
AllCollectionsFetched(raw) ==
  /\ Len(raw.local) = Len(document.local)
  /\ Len(raw.shared) = Len(document.library)
  /\ \A i \in DOMAIN raw.local : raw.local[i].name = document.local[i].name
  /\ \A j \in DOMAIN raw.shared : raw.shared[j].key = document.library[j].key

\* every variable that was fetched in full has its token in the tree
TokensOfFetched(r) ==
  \A c \in Range(r.raw.local) \cup Range(r.raw.shared) :
    \A v \in Range(c.variables) :
       v.valuesByMode # <<>> =>
         \E k \in DOMAIN r.dtcg :
            NodeAt(r.dtcg[k],
                   <<sanitizeForDTCG(sLight)>> \o VariablePathSegments(v.name)).tok # NoTok

\* the failures the fetched payload and the console record
FailuresRecorded(raw) ==
  LET items == Flatten([j \in DOMAIN document.library |-> document.library[j].variables])
      importFailed == KeysWith(items, "throws", "ok")
      detailFailed == KeysWith(items, "ok", "throws")
      listingFailed == { j \in DOMAIN document.library : document.library[j].listing = "throws" }
      any == importFailed # <<>> \/ detailFailed # <<>> \/ listingFailed # {}
  IN  /\ ("errorLog" \in DOMAIN raw) = any
      /\ any =>
           /\ [e \in DOMAIN raw.errorLog.importErrors |->
                 raw.errorLog.importErrors[e].variableKey] = importFailed
           /\ [e \in DOMAIN raw.errorLog.detailErrors |->
                 raw.errorLog.detailErrors[e].variableKey] = detailFailed
           /\ { raw.errorLog.collectionErrors[e].collectionKey :
                  e \in DOMAIN raw.errorLog.collectionErrors }
                = { document.library[j].key : j \in listingFailed }
      /\ [w \in DOMAIN console |-> console[w].id]
           = Flatten([n \in 1..Len(returned) |->
                        Flatten([i \in DOMAIN document.local |->
                                   ThrownLocal(document.local[i].variables)])])

LocalIds(raw) == { v.id : v \in UNION { Range(c.variables) : c \in Range(raw.local) } }

\* C22: no variable imported from a library is in the local section of the
\* fetched payload: a local collection's variable id that is in
\* importedLibraryVariableIds is skipped.
C22_NoImportedVariableInLocal ==
  (fetching.pc \in {"build", "rebuild"})
    => LocalIds(allFetchedVariablesPayload) \cap importedLibraryVariableIds = {}

-----------------------------------------------------------------------------
(* Failures of the fetch stage as a whole: the listing calls of               *)
(* fetchLocalCollections and fetchSharedCollections reject, or a statement    *)
(* inside the try of fetchAndLogAllVariables raises                           *)

\* the positions of a run inside the try of code.js:1300..1332
TryStages == {"collections", "local", "libraries", "shared", "build"}

\* code.js:242..252: errorLog is created when missing and gets the entry
WithLocalCollectionError(payload) ==
  Put(payload, "errorLog",
      Put(IF Has(payload, "errorLog") THEN payload.errorLog ELSE <<>>,
          "localCollectionError", [phase |-> "fetchLocalCollections"]))

\* code.js:444..451: errorLog is assigned an object holding criticalError alone
WithCriticalError(payload) ==
  Put(payload, "errorLog", [criticalError |-> [phase |-> "fetch-shared-collections"]])

\* code.js:1337..1346, the payload handed back as it was
WithOrchestrationError_Unmarked(payload) == payload

\* code.js:1337..1346: errorLog is created when missing and gets the entry
WithOrchestrationError(payload) ==
  Put(payload, "errorLog",
      Put(IF Has(payload, "errorLog") THEN payload.errorLog ELSE <<>>,
          "orchestrationError", [phase |-> "fetchAndLogAllVariables"]))

\* code.js:192 and 239..253: getLocalVariableCollectionsAsync rejects; the
\* catch of fetchLocalCollections records it and the run goes on to the libraries
LocalCollectionsThrow ==
  /\ fetching.pc = "collections"
  /\ allFetchedVariablesPayload' = WithLocalCollectionError(allFetchedVariablesPayload)
  /\ console' = Append(console, [error |-> "Error fetching local collections"])
  /\ fetching' = [pc |-> "libraries"]
  /\ UNCHANGED <<figmaData, useRemUnits, remBaseFontSize, variableIdToPathMap,
                 unresolvedAliaseIdsSuspectedMissingSource, processedCollectionSignatures,
                 usedCollectionNames, dtcgPayload, pc, cur, uiMessages, history,
                 callArgs, callResult, pcOther, document,
                 importedLibraryVariableIds, variableKeyToIdMap, variableIdToKeyMap,
                 returned>>

\* code.js:261 and 442..454, 1311..1324: getAvailableLibraryVariableCollectionsAsync
\* rejects; the catch of fetchSharedCollections records it, and
\* createSimplifiedDTCGPayload is called
LibraryCollectionsThrow ==
  /\ fetching.pc = "libraries"
  /\ allFetchedVariablesPayload' = WithCriticalError(allFetchedVariablesPayload)
  /\ fetching' = [pc |-> "build"]
  /\ figmaData' = [local |-> allFetchedVariablesPayload.local,
                   shared |-> allFetchedVariablesPayload.shared]
  /\ pc' = "start"
  /\ UNCHANGED <<useRemUnits, remBaseFontSize, variableIdToPathMap,
                 unresolvedAliaseIdsSuspectedMissingSource, processedCollectionSignatures,
                 usedCollectionNames, dtcgPayload, cur, uiMessages, history,
                 callArgs, callResult, pcOther, document, console,
                 importedLibraryVariableIds, variableKeyToIdMap, variableIdToKeyMap,
                 returned>>

\* code.js:1333..1349 and 757..758: a statement inside the try raises; the
\* catch logs, records orchestrationError and returns the payload itself, and
\* the caller calls createSimplifiedDTCGPayload(data.raw || data)
OrchestrationThrows ==
  /\ fetching.pc \in TryStages
  /\ allFetchedVariablesPayload' = WithOrchestrationError(allFetchedVariablesPayload)
  /\ console' = Append(console, [error |-> "Error in fetchAndLogAllVariables"])
  /\ callArgs' = [fn |-> "fetchAndLogAllVariables"]
  /\ callResult' = [t |-> "payload", value |-> allFetchedVariablesPayload']
  /\ fetching' = [pc |-> "rebuild"]
  /\ figmaData' = [local |-> allFetchedVariablesPayload.local,
                   shared |-> allFetchedVariablesPayload.shared]
  /\ pc' = "start"
  /\ UNCHANGED <<useRemUnits, remBaseFontSize, variableIdToPathMap,
                 unresolvedAliaseIdsSuspectedMissingSource, processedCollectionSignatures,
                 usedCollectionNames, dtcgPayload, cur, uiMessages, history,
                 pcOther, document,
                 importedLibraryVariableIds, variableKeyToIdMap, variableIdToKeyMap,
                 returned>>

NextFault ==
  \/ BeginFetch
  \/ LocalCollectionsReturn
  \/ LocalCollectionsThrow
  \/ FetchLocalStep
  \/ LibraryCollectionsReturn
  \/ LibraryCollectionsThrow
  \/ FetchSharedStep
  \/ OrchestrationThrows
  \/ StartRun
  \/ NextCollection
  \/ ProcessValue
  \/ LookupReturns
  \/ FinishRun
  \/ FetchReturns
  \/ HandlerPosts

MaxFaultShared == 1

\* documents with one local variable and a library collection whose imports
\* may fail
FaultDocuments ==
  { d \in FetchDocuments :
      /\ \A c \in Range(d.local) :
           /\ c.variables # <<>>
           /\ \A v \in Range(c.variables) : v.fetch = "ok"
      /\ \A c \in Range(d.library) :
           /\ Len(c.variables) <= MaxFaultShared
           /\ \A v \in Range(c.variables) : v.detail = "ok" }

InitFault == InitFetch /\ document \in FaultDocuments

SpecFault == InitFault /\ [][NextFault]_vars

-----------------------------------------------------------------------------
(* Failure properties (SpecFault) *)

\* the step logs the error the catch of fetchAndLogAllVariables logs
OrchestrationErrorLogged ==
  /\ Len(console') = Len(console) + 1
  /\ console'[Len(console')] = [error |-> "Error in fetchAndLogAllVariables"]

\* C21: when a statement inside the try of fetchAndLogAllVariables raises, the
\* call does not reject: it returns the payload as far as it was built, with
\* an orchestrationError entry in its errorLog, and its caller goes on with
\* that value.
C21_OrchestrationErrorReturned ==
  [][OrchestrationErrorLogged =>
       /\ callArgs'.fn = "fetchAndLogAllVariables"
       /\ callResult'.t = "payload"
       /\ callResult'.value.local = allFetchedVariablesPayload.local
       /\ callResult'.value.shared = allFetchedVariablesPayload.shared
       /\ Has(callResult'.value, "errorLog")
       /\ Has(callResult'.value.errorLog, "orchestrationError")
       /\ figmaData'.local = callResult'.value.local
       /\ figmaData'.shared = callResult'.value.shared
       /\ pc' = "start"]_vars

\* a run that failed between the two fetches has answered with a tree, and the
\* payload it kept holds the local collection, no library collection and the entry
C21_Witness ==
  \E i \in DOMAIN returned :
    /\ Has(returned[i].raw, "errorLog")
    /\ Has(returned[i].raw.errorLog, "orchestrationError")
    /\ returned[i].raw.local # <<>>
    /\ returned[i].raw.shared = <<>>
    /\ DOMAIN returned[i].dtcg # {}

-----------------------------------------------------------------------------
(* Tree key, path index and token properties (Spec, SpecFetch, SpecTree) *)

\* C23: two collections of different signatures that both receive an entry in
\* one run receive different tree keys, and the tokens written for each are
\* in the finished tree under its key.
C23_DistinctKeysPerSignature ==
  /\ \A i, j \in EntryEvents :
       (NameOf(i) # NameOf(j) \/ OriginOf(i) # OriginOf(j))
         => history[i].key # history[j].key
  /\ Done => \A i \in EntryEvents :
               /\ history[i].key \in DOMAIN dtcgPayload
               /\ TokensOf(i) \subseteq Leaves(dtcgPayload[history[i].key], <<>>)

\* C24: every resolved reference "{key.seg1...segN}" stored in a returned tree
\* designates a collection key of that tree and a token at seg1...segN under
\* at least one mode of that collection.
C24_ReferencesDesignateTokens ==
  \A n \in DOMAIN returned :
    LET r == returned[n]
        tokens == UNION { Leaves(r.dtcg[k], <<>>) : k \in DOMAIN r.dtcg }
    IN  \A id \in DOMAIN r.index :
          (\E leaf \in tokens : leaf[2].value = Str(ReferenceString(r.index[id])))
            => /\ r.index[id].collectionKey \in DOMAIN r.dtcg
               /\ \E mode \in DOMAIN r.dtcg[r.index[id].collectionKey].kids :
                    NodeAt(r.dtcg[r.index[id].collectionKey].kids[mode],
                           r.index[id].path).tok # NoTok

\* C25: no token is lost while the tree is built: every token written for a
\* mode value of a variable is, in the finished tree, a leaf at the variable's
\* sanitized path under the collection's key and the mode, holding that
\* value, and no leaf is used as a group.
C25_NoTokenLost ==
  Done =>
    \A t \in TokenEvents :
      /\ history[t].key \in DOMAIN dtcgPayload
      /\ LET node == NodeAt(dtcgPayload[history[t].key],
                            <<history[t].mode>> \o history[t].path)
         IN  node.tok = history[t].tok /\ node.kids = <<>>

-----------------------------------------------------------------------------
(* SpecFetchOverlap: a second run, started by a UI message that is handled    *)
(* while the first run is suspended in a call of its fetch stage; both runs   *)
(* use the module-level allFetchedVariablesPayload                            *)

\* code.js:754..757, 1299..1302, 165..185 and 192: the handler of
\* 'generate-dtcg' calls fetchAndLogAllVariables, which calls resetPluginState
\* and then awaits the local collections
OtherRunResetsFetch ==
  /\ fetching.pc \in {"collections", "local", "libraries", "shared"}
  /\ pcOther = "idle"
  /\ allFetchedVariablesPayload' = ClearedPayload
  /\ importedLibraryVariableIds' = {}
  /\ variableKeyToIdMap' = <<>>
  /\ variableIdToKeyMap' = <<>>
  /\ variableIdToPathMap' = <<>>
  /\ unresolvedAliaseIdsSuspectedMissingSource' = {}
  /\ pcOther' = "fetch"
  /\ UNCHANGED <<figmaData, useRemUnits, remBaseFontSize, processedCollectionSignatures,
                 usedCollectionNames, dtcgPayload, pc, cur, uiMessages, history,
                 callArgs, callResult, document, console, fetching, returned>>

\* code.js:198..235: the second run has fetched the variables of its next
\* local collection and pushes the collection
OtherRunPushesLocal ==
  /\ fetching.pc \in {"collections", "local", "libraries", "shared"}
  /\ pcOther = "fetch"
  /\ Len(allFetchedVariablesPayload.local) < Len(document.local)
  /\ LET collection == document.local[Len(allFetchedVariablesPayload.local) + 1]
     IN  allFetchedVariablesPayload' =
           [allFetchedVariablesPayload EXCEPT
              !.local = Append(@, [LocalCollectionData(collection) EXCEPT
                                     !.variables = FetchedLocal(collection.variables)])]
  /\ UNCHANGED <<figmaData, useRemUnits, remBaseFontSize, variableIdToPathMap,
                 unresolvedAliaseIdsSuspectedMissingSource, processedCollectionSignatures,
                 usedCollectionNames, dtcgPayload, pc, cur, uiMessages, history,
                 callArgs, callResult, pcOther, document, console, fetching, returned,
                 importedLibraryVariableIds, variableKeyToIdMap, variableIdToKeyMap>>

NextFetchOverlap ==
  \/ BeginFetch
  \/ LocalCollectionsReturn
  \/ FetchLocalStep
  \/ LibraryCollectionsReturn
  \/ FetchSharedStep
  \/ StartRun
  \/ NextCollection
  \/ ProcessValue
  \/ LookupReturns
  \/ FinishRun
  \/ FetchReturns
  \/ HandlerPosts
  \/ OtherRunResetsFetch
  \/ OtherRunPushesLocal

SpecFetchOverlap == InitFetch /\ [][NextFetchOverlap]_vars

\* C26: each tree delivered to the UI is built from the complete fetch of the
\* run that delivers it: the payload the run converts holds every collection
\* of the document once, each local collection with the variables that run
\* fetched, and every variable fetched in full has its token in the tree.
C26_DeliveredFromOwnCompleteFetch ==
  \A n \in DOMAIN returned :
    /\ AllCollectionsFetched(returned[n].raw)
    /\ \A i \in DOMAIN returned[n].raw.local :
         returned[n].raw.local[i].variables = FetchedLocal(document.local[i].variables)
    /\ TokensOfFetched(returned[n])

\* C26 where no second run starts
C26_SingleRun == (pcOther = "idle") => C26_DeliveredFromOwnCompleteFetch

-----------------------------------------------------------------------------
(* SpecRem: the UI message 'UPDATE_REM_SETTING' handled while a run is       *)
(* suspended in getVariableByIdAsync; the handler and the run share          *)
(* useRemUnits and remBaseFontSize                                            *)

RemBaseFontSizes == {10 * Scale, DefaultRemBaseFontSize}

\* code.js:1004..1012: the handler assigns the two settings from the message
\* and awaits saveRemSettings
UpdateRemSetting ==
  /\ pc = "lookup"
  /\ pcOther = "idle"
  /\ \E useRem \in BOOLEAN, baseFontSize \in RemBaseFontSizes :
       /\ useRemUnits' = useRem
       /\ remBaseFontSize' = baseFontSize
  /\ pcOther' = "save"
  /\ UNCHANGED <<figmaData, variableIdToPathMap, unresolvedAliaseIdsSuspectedMissingSource,
                 processedCollectionSignatures, usedCollectionNames, dtcgPayload,
                 pc, cur, uiMessages, history, callArgs, callResult, fetchVars>>

\* code.js:1015..1026, 3637..3640, 1299..1302 and 165..185: after the save the
\* handler posts 'REM_SETTING_UPDATED' and calls refreshDataWithCleanReset,
\* whose fetchAndLogAllVariables resets the plugin state and then awaits
RemSettingSaved ==
  /\ pc = "lookup"
  /\ pcOther = "save"
  /\ uiMessages' = Append(uiMessages,
                     [type |-> "REM_SETTING_UPDATED", useRemUnits |-> useRemUnits,
                      remBaseFontSize |-> remBaseFontSize])
  /\ variableIdToPathMap' = <<>>
  /\ unresolvedAliaseIdsSuspectedMissingSource' = {}
  /\ pcOther' = "fetch"
  /\ UNCHANGED runLocals

NextRem ==
  \/ StartRun
  \/ NextCollection
  \/ ProcessValue
  \/ LookupReturns
  \/ FinishRun
  \/ UpdateRemSetting
  \/ RemSettingSaved
  \/ OtherRunIndexes
  \/ OtherRunRecords
  \/ OtherRunFinishes

SpecRem == InitOverlap /\ [][NextRem]_vars

\* the unit settings a run can be made under
UnitSettings ==
  { [useRemUnits |-> u, remBaseFontSize |-> b] :
      u \in BOOLEAN, b \in RemBaseFontSizes }

\* code.js:1261..1288 under one given unit setting
convertNumberUnder(setting, value) ==
  LET roundedNum == roundToMaxThreeDecimals(parseFloat(value))
  IN  IF setting.useRemUnits
        THEN Str(convertPxToRem(roundedNum, setting.remBaseFontSize))
        ELSE Str(StringOf(roundedNum) \o <<"p", "x">>)

\* the token events of plain numbers of a type that takes a unit
UnitTokenEvents ==
  { i \in TokenEvents :
      /\ history[i].tok.type \in TYPES_REQUIRING_PX
      /\ CollectionAt(history[i].at).variables[history[i].at.vi]
           .valuesByMode[history[i].at.mi].value.t = "num" }

SourceValueOf(i) ==
  CollectionAt(history[i].at).variables[history[i].at.vi].valuesByMode[history[i].at.mi].value

\* C27: the unit-bearing token values of one returned tree are all written
\* under one unit setting (px, or rem with one base font size), also when
\* 'UPDATE_REM_SETTING' is handled while the run is suspended
C27_OneUnitSettingPerTree ==
  Done =>
    \E setting \in UnitSettings :
      \A i \in UnitTokenEvents :
        TokenInTree(history[i].key, history[i].mode, history[i].path).value
          = convertNumberUnder(setting, SourceValueOf(i))

\* without a settings update during the run the tree is written under the
\* setting the run began with
C27_SingleRun ==
  (Done /\ pcOther = "idle") =>
    \A i \in UnitTokenEvents :
      TokenInTree(history[i].key, history[i].mode, history[i].path).value
        = convertNumberUnder([useRemUnits |-> FALSE,
                              remBaseFontSize |-> DefaultRemBaseFontSize],
                             SourceValueOf(i))

-----------------------------------------------------------------------------
(* Error log properties (SpecFault) *)

\* the kinds of error the errorLog of a payload holds
ErrorKinds(payload) ==
  IF Has(payload, "errorLog") THEN DOMAIN payload.errorLog ELSE {}

\* C28: an error recorded in the errorLog of the payload during a run stays in
\* it for the rest of the run, so that the payload the run returns holds it;
\* in particular localCollectionError survives what fetchSharedCollections
\* records afterwards
C28_RecordedErrorsKept ==
  [][fetching'.pc # "collections" =>
       ErrorKinds(allFetchedVariablesPayload) \subseteq ErrorKinds(allFetchedVariablesPayload')]_vars

\* a run hands over a payload whose errorLog lacks the localCollectionError
\* its fetchLocalCollections recorded
C28_LocalErrorLost ==
  \E i \in DOMAIN returned :
    /\ Has(returned[i].raw, "errorLog")
    /\ ~Has(returned[i].raw.errorLog, "localCollectionError")
    /\ returned[i].raw.local = <<>>
    /\ document.local # <<>>

-----------------------------------------------------------------------------
(* SpecLive: requests of the UI and the initial load, in which any call of   *)
(* the fetch may fail and the conversion in the handler may raise; every     *)
(* pending call eventually settles                                            *)

MaxRequests == 1

\* the 'dtcgPayload' and 'error' messages posted so far
AnswerCount ==
  Cardinality({ i \in DOMAIN uiMessages : uiMessages[i].type \in {"dtcgPayload", "error"} })

\* code.js:754..757 and 1059..1075: a 'generate-dtcg' message or the initial
\* load starts a run
RequestArrives ==
  /\ AnswerCount < MaxRequests
  /\ BeginFetch

\* code.js:758 and 767..774, 1076 and 1101..1106: createSimplifiedDTCGPayload
\* raises in the handler; the catch of the handler posts 'error'
ConversionThrows ==
  /\ fetching.pc = "rebuild"
  /\ pc # "done"
  /\ uiMessages' = Append(uiMessages, [type |-> "error"])
  /\ fetching' = [pc |-> "idle"]
  /\ pc' = "failed"
  /\ UNCHANGED <<figmaData, useRemUnits, remBaseFontSize, variableIdToPathMap,
                 unresolvedAliaseIdsSuspectedMissingSource, processedCollectionSignatures,
                 usedCollectionNames, dtcgPayload, cur, history,
                 callArgs, callResult, pcOther, document, allFetchedVariablesPayload,
                 importedLibraryVariableIds, variableKeyToIdMap, variableIdToKeyMap,
                 console, returned>>

\* a pending call settles, by returning or by failing, and the code runs on to
\* its next await
CallSettles ==
  \/ LocalCollectionsReturn
  \/ LocalCollectionsThrow
  \/ FetchLocalStep
  \/ LibraryCollectionsReturn
  \/ LibraryCollectionsThrow
  \/ FetchSharedStep
  \/ OrchestrationThrows
  \/ StartRun
  \/ NextCollection
  \/ ProcessValue
  \/ LookupReturns
  \/ FinishRun
  \/ FetchReturns
  \/ ConversionThrows
  \/ HandlerPosts

NextLive ==
  \/ RequestArrives
  \/ CallSettles

\* documents with one local variable, which aliases the one library variable
\* and whose retrieval may fail, and a library whose listing or whose import
\* may fail
LiveDocuments ==
  { [name |-> sAcme,
     local |-> <<[name |-> sSpacing, modes |-> BaseModes,
                  variables |-> <<[variable |-> LocalDocumentVariable(1), fetch |-> f]>>]>>,
     library |-> <<[key |-> <<"c", "1">>, name |-> sTokens, libraryName |-> sDesignSystem,
                    modes |-> BaseModes, listing |-> l,
                    variables |->
                      IF l = "ok"
                        THEN <<[key |-> <<"k", "1">>, name |-> <<"p", "1">>,
                                variable |-> LibraryDocumentVariable(1),
                                import |-> i, detail |-> "ok"]>>
                        ELSE <<>>]>>] :
      f \in {"ok", "throws"}, l \in {"ok", "throws"}, i \in {"ok", "throws"} }

InitLive == InitFetch /\ document \in LiveDocuments

\* a run is pending exactly when one of the steps of CallSettles can be taken
RunPending == fetching.pc # "idle"

\* weak fairness of CallSettles, WF_vars(CallSettles), with
\* ENABLED <<CallSettles>>_vars written as RunPending
CallsSettleFairly == []<>(~RunPending) \/ []<><<CallSettles>>_vars

SpecLive == InitLive /\ [][NextLive]_vars /\ CallsSettleFairly

\* C29: provided every external call eventually returns or fails, every
\* 'generate-dtcg' request and the initial load are eventually followed by a
\* 'dtcgPayload' or an 'error' message to the UI
C29_EveryRequestAnswered ==
  \A n \in 0..(MaxRequests - 1) :
    (fetching.pc # "idle" /\ AnswerCount = n) ~> (AnswerCount > n)

\* a request answered by 'error': fetchSharedCollections recorded a critical
\* error, the run went on, and the conversion in the handler raised
C29_Witness ==
  /\ ~RunPending
  /\ \E i \in DOMAIN uiMessages : uiMessages[i].type = "error"
  /\ Has(allFetchedVariablesPayload, "errorLog")
  /\ Has(allFetchedVariablesPayload.errorLog, "criticalError")

\* a request answered by 'dtcgPayload' although the import of the library
\* variable failed and the alias lookup found nothing
C29_AnsweredAfterFailures ==
  /\ ~RunPending
  /\ \E i \in DOMAIN uiMessages : uiMessages[i].type = "dtcgPayload"
  /\ \E i \in DOMAIN returned :
       /\ Has(returned[i].raw, "errorLog")
       /\ returned[i].unresolved # {}

-----------------------------------------------------------------------------
(* SpecCross: a run over a local and a shared collection whose modes may     *)
(* differ, the local one aliasing into the shared one, then the JavaScript   *)
(* generator on the payload the run returned                                 *)

sLink == <<"l","i","n","k">>

CrossNames == {sSlate2, sFill, sLink, sRef}

\* the local variable of a name: slate/2 is a number, fill an alias of slate/2,
\* link an alias of the shared variable a by its id and ref an alias of it by
\* its library id
CrossVariable(name, modes) ==
  Variable(CodeId(name), name, "FLOAT", {"GAP"},
           [m \in DOMAIN modes |->
              [modeId |-> modes[m].modeId,
               value |-> CASE name = sFill -> Alias(CodeId(sSlate2))
                           [] name = sLink -> Alias(CodeId(sA))
                           [] name = sRef -> Alias(LibraryIdOf(CodeId(sA)))
                           [] OTHER -> Num((Len(name) + 10 * m) * Scale)]])

CrossInputs ==
  { [local |-> <<[name |-> sSpacing, libraryName |-> sAcme, modes |-> modes,
                  variables |-> [i \in DOMAIN names |-> CrossVariable(names[i], modes)]]>>,
     shared |-> <<[name |-> sTokens, libraryName |-> sDesignSystem, modes |-> sharedModes,
                   variables |-> <<CodeVariable(sA, sharedModes)>>]>>] :
      modes \in TreeModes, sharedModes \in TreeModes,
      names \in DistinctSeqs(CrossNames, MaxCodeVariables) }

InitCross == figmaData \in CrossInputs /\ RunStart /\ pcOther = "idle"

NextCross ==
  \/ StartRun
  \/ NextCollection
  \/ ProcessValue
  \/ LookupReturns
  \/ FinishRun
  \/ RequestJSCode

SpecCross == InitCross /\ [][NextCross]_vars

\* the keys a generated path expression names: a.b.c and a.b["2"] alike
ExpressionSegments(code) ==
  IF Len(code) >= 2 /\ code[Len(code)] = "]"
    THEN LET bracket == LastIndexOf(code, "[")
         IN  split(SubSeq(code, 1, bracket - 1), ".")
               \o <<SubSeq(code, bracket + 2, Len(code) - 2)>>
    ELSE split(code, ".")

\* the expression generated for the token of the resolved alias at position i
EmittedExpression(i) ==
  JSCodeAt(callResult.code,
           <<history[i + 1].key, history[i + 1].mode>> \o history[i + 1].path).s

\* C30: every path expression generateJSCodeFromPayload emits for a resolved
\* alias names an existing leaf of the tree, also when the alias points into a
\* collection whose modes differ from those of the referring collection
C30_ExpressionsAddressLeaves ==
  callResult.t = "js" =>
    \A i \in ResolvedAliasTokens :
      NodeAt([tok |-> NoTok, kids |-> dtcgPayload],
             ExpressionSegments(EmittedExpression(i))).tok # NoTok

\* the same for the aliases whose target lies in the referring collection
C30_WithinCollection ==
  callResult.t = "js" =>
    \A i \in ResolvedAliasTokens :
      TargetInfo(i).collectionKey = history[i + 1].key =>
        NodeAt([tok |-> NoTok, kids |-> dtcgPayload],
               ExpressionSegments(EmittedExpression(i))).tok # NoTok

====
